---- MODULE Spec2Model ----
(***************************************************************************)
(* Model of the SECoP server core (secop-rs): the TCP listener, the        *)
(* connection handlers (reader and writer thread), the dispatcher and the  *)
(* module workers, connected by unbounded FIFO channels.                   *)
(*                                                                         *)
(* The dispatcher's select! over its three channels picks any ready        *)
(* channel (crossbeam: "a random one among them is selected"), so the      *)
(* three dispatcher arms are independent actions.                          *)
(***************************************************************************)
EXTENDS Integers, Sequences, FiniteSets, TLC

(* ---------------- bounds of the model ---------------- *)
\* number of TCP connections the listener accepts
MaxHid == 2
\* total number of lines the clients send
MaxLines == 2
\* total number of poll ticks of all module workers
MaxPoll == 1
\* calls a LocalClient makes
MaxCalls == 3
\* bytes a client sends to the reader thread looked at in detail
MaxStream == 6
\* RECVBUF_LEN (4096) and MAX_MSG_LEN (1024*1024), scaled down
RECVBUF_LEN == 2
MAX_MSG_LEN == 3
\* the clock of the detailed worker runs from 0 to MaxTime
MaxTime == 2
\* ticks of each poll ticker of the detailed worker
MaxTicks == 3

(* ---------------- configuration ---------------- *)
\* configured modules (ServerConfig.modules)
Modules == {"m1", "m2"}
\* a module name that is not configured
NoMod == "nx"
\* the parameter and the command of a module
Param == "value"
Command == "stop"
\* datainfo of the parameter: Int{min: MinVal, max: MaxVal}
MinVal == 0
MaxVal == 1
\* values the hardware can deliver (one of them outside the datainfo)
Values == 0..2

Hids == 1..MaxHid
\* Option<HandlerId>::None in the module reply channel
None == 0

VARIABLES
    next_hid,       \* NEXT_HID
    hstate,         \* reader thread of a connection: "none", "run", "quit", "panic"
    wstate,         \* writer thread of a connection: "none", "run", "dead"
    rep,            \* per connection reply channel: every message placed on it
    quit_sent,      \* connections whose reader has sent (hid, Quit)
    nlines,         \* lines sent by clients so far
    sent,           \* history: the lines each handler has processed
    connections,    \* channel listener -> dispatcher
    requests,       \* channel handlers -> dispatcher
    replies,        \* channel modules -> dispatcher
    modreq,         \* per module request channel dispatcher -> module
    handlers,       \* Dispatcher.handlers (its keys)
    active,         \* Dispatcher.active
    global_activate_remaining,
    quit_done,      \* history: the hids whose Quit the dispatcher has processed
    descriptive,    \* Dispatcher.descriptive["modules"]
    mstate,         \* module worker: "init", "loop"
    cache,          \* parameter cache of each module
    npoll,          \* poll ticks so far
    restarted,      \* history: the modules their supervisor has created again
    wire,           \* per connection: the messages its writer thread has written
    \* one worker in detail: a parameter of its module
    decl,           \* the #[param] declaration: swonly, readonly, default, polling
    cfg,            \* ModuleConfig.parameters: <<>> or <<value>> for the parameter
    pstate,         \* "new", "ready" (init_params done), "failed"
    param,          \* the ModParam of the parameter: data and time
    now,            \* localtime()
    calls,          \* the hooks the last operation has invoked
    result,         \* the Result of the last operation
    updates,        \* the updates the last operation has sent with hid None
    status,         \* cache.status.0
    poll_normal_counter,
    poll_busy_counter,
    poll_tickers,   \* the periods of the two tickers, in ms
    lc_call,        \* LocalClient: the call in progress: "", "read", "change", "command"
    lc_ncalls,      \* LocalClient: calls made
    req_sender,     \* LocalClient: its requests the server has not yet treated
    rep_receiver,   \* LocalClient: the messages on its reply channel
    lc_waited,      \* LocalClient: seconds the call in progress has waited in recv_timeout
    lc_result,      \* LocalClient: what the last call returned
    lc_tags,        \* history: the number of the call each request and reply belongs to
    \* one reader thread in detail: Handler::handle
    stream,         \* the bytes the client has sent and the handler has not yet read
    buf,            \* buf
    parsed,         \* history: the lines passed to Msg::parse
    hdone,          \* the handler has left its loop and sent Quit
    \* one function in detail
    input,          \* the value the function is applied to
    applied,        \* the functions applied so far
    output,         \* their results
    \* the communicator: CommThread and CommClient (support/comm.rs)
    device,         \* the bytes the device has sent and the reader thread has not yet read
    buffer,         \* shared.buffer
    waiter,         \* the client in wait_eol: "idle", "waiting", "notified"
    rl_waited,      \* the time the client has waited in wait_for
    rl_ncalls,      \* calls of readline and communicate made
    rl_result,      \* what the last call returned
    line_seen       \* history: the buffer held a complete line during the call in progress

vars == <<next_hid, hstate, wstate, rep, quit_sent, nlines, sent, connections, requests,
          replies, modreq, handlers, active, global_activate_remaining, quit_done,
          descriptive, mstate, cache, npoll, restarted, wire,
          decl, cfg, pstate, param, now, calls, result, updates, status,
          poll_normal_counter, poll_busy_counter, poll_tickers,
          lc_call, lc_ncalls, req_sender, rep_receiver, lc_waited, lc_result, lc_tags,
          stream, buf, parsed, hdone, input, applied, output,
          device, buffer, waiter, rl_waited, rl_ncalls, rl_result, line_seen>>

hvars == <<next_hid, hstate, wstate, quit_sent, nlines, sent>>
dvars == <<handlers, active, global_activate_remaining, quit_done, descriptive>>
\* the variables that only the supervisor changes
xvars == <<restarted, wire>>
\* the variables of the worker in detail
pvars == <<decl, cfg, pstate, param, now, calls, result, updates, status,
           poll_normal_counter, poll_busy_counter, poll_tickers>>
\* the variables of the LocalClient
cvars == <<lc_call, lc_ncalls, req_sender, rep_receiver, lc_waited, lc_result, lc_tags>>
\* the variables of the parts looked at on their own
bvars == <<stream, buf, parsed, hdone>>
fvars == <<input, applied, output>>
kvars == <<device, buffer, waiter, rl_waited, rl_ncalls, rl_result, line_seen>>
uvars == <<bvars, fvars, kvars>>
lvars == <<pvars, cvars, uvars>>
mvars == <<mstate, cache, npoll, xvars, lvars>>

(* ---------------- messages (proto.rs) ---------------- *)
\* every Msg is a record of the same shape; data is always a tuple
Msg(t, m, a, d) == [type |-> t, module |-> m, acc |-> a, data |-> d]

Read(m, p)        == Msg("read", m, p, <<>>)
Change(m, p, v)   == Msg("change", m, p, <<v>>)
Do(m, c)          == Msg("do", m, c, <<>>)
Activate(m)       == Msg("activate", m, "", <<>>)
Deactivate(m)     == Msg("deactivate", m, "", <<>>)
Describe          == Msg("describe", "", "", <<>>)
Ping              == Msg("ping", "tok", "", <<>>)
Idn               == Msg("*IDN?", "", "", <<>>)
Quit              == Msg("<eof>", "", "", <<>>)
Update(m, p, v)   == Msg("update", m, p, <<v>>)
Changed(m, p, v)  == Msg("changed", m, p, <<v>>)
Done(m, c)        == Msg("done", m, c, <<>>)
Active(m)         == Msg("active", m, "", <<>>)
Inactive(m)       == Msg("inactive", m, "", <<>>)
Pong              == Msg("pong", "tok", "", <<>>)
IdnReply          == Msg("SINE2020&ISSE,SECoP,V2018-11-07,v1.0\\beta", "", "", <<>>)
Describing(id, s) == Msg("describing", id, "", s)
InitUpdates(m, u) == Msg("<updates>", m, "", u)

\* the originating line of a message: impl Display for Msg
Line(msg) == <<msg.type, msg.module, msg.acc, msg.data>>
\* a line with an unknown verb
BadLine == <<"bogus", "", "", <<>>>>
\* IncomingMsg::bare: no originating line
NoLine == <<"", "", "", <<>>>>

\* an error reply that does not quote the request
ErrMsg_Bare(class, line, message) == Msg("error", class, message, NoLine)

\* Error::into_msg: class, and the report [line, message, {}]
ErrMsg(class, line, message) == Msg("error", class, message, line)

IncomingMsg(h, line, msg) == [hid |-> h, line |-> line, msg |-> msg]
\* a reply that is sent without the id of the handler
ModRep_Untagged(h, msg) == [hid |-> None, msg |-> msg]

\* (Option<HId>, Msg) on the reply channel of the modules
ModRep(h, msg) == [hid |-> h, msg |-> msg]

\* describe() of a module: a JSON object
Structure(m) == [kind |-> "object", of |-> m]

(* ---------------- channel helpers ---------------- *)
\* send every message of the sequence msgs
SendAll(chan, msgs) == chan \o msgs

\* Does a send to the reply channel of h reach its receiver?  The receiver is
\* owned by the writer thread and is dropped when that thread ends.
ReceiverAlive(h) == wstate[h] = "run"

(* ---------------- listener and connection handler (server.rs) ---------------- *)
\* lines a client can send
ClientLines ==
    {Line(Read(m, Param)) : m \in {"m1", NoMod}}
    \cup {Line(Change(m, Param, MaxVal)) : m \in {"m1", NoMod}}
    \cup {Line(Do(m, Command)) : m \in {"m1", NoMod}}
    \cup {Line(Activate(m)) : m \in Modules \cup {NoMod, ""}}
    \cup {Line(Deactivate(m)) : m \in {"m1", NoMod, ""}}
    \cup {Line(Describe), Line(Ping), BadLine}

\* verbs Msg::parse_inner knows
Verbs == {"read", "change", "do", "describe", "activate", "deactivate", "ping",
          "*IDN?", "update", "changed", "done", "describing", "active", "inactive",
          "pong", "error"}

\* Msg::parse: Ok(IncomingMsg(line, msg)) or Err(error message quoting the line)
ParseOk(line) == line[1] \in Verbs
Parse(line) ==
    IF ParseOk(line) THEN Msg(line[1], line[2], line[3], line[4])
    ELSE ErrMsg("ProtocolError", line, "no such message type")

\* verbs Handler::handle_msg forwards to the dispatcher
Forwarded == {"change", "do", "read", "describe", "activate", "deactivate"}

\* Server::tcp_listener: accept a client, register it, spawn its handler
Accept ==
    /\ next_hid <= MaxHid
    /\ next_hid' = next_hid + 1
    /\ connections' = Append(connections, next_hid)
    /\ hstate' = [hstate EXCEPT ![next_hid] = "run"]
    /\ wstate' = [wstate EXCEPT ![next_hid] = "run"]
    /\ UNCHANGED <<rep, quit_sent, nlines, sent, requests, replies, modreq, dvars, mvars>>

\* Handler::send_back: panics ("sending to client failed") when the receiver is gone
HandlerSendBack(h, msg) ==
    IF ReceiverAlive(h)
    THEN /\ rep' = [rep EXCEPT ![h] = Append(@, msg)]
         /\ UNCHANGED hstate
    ELSE /\ hstate' = [hstate EXCEPT ![h] = "panic"]
         /\ UNCHANGED rep

\* Handler::process and Handler::handle_msg for one complete line
HandleLine(h, line) ==
    /\ hstate[h] = "run"
    /\ nlines < MaxLines
    /\ nlines' = nlines + 1
    /\ sent' = [sent EXCEPT ![h] = Append(@, line)]
    /\ IF ~ParseOk(line)
       THEN HandlerSendBack(h, Parse(line)) /\ UNCHANGED requests
       ELSE LET msg == Parse(line) IN
            CASE msg.type \in Forwarded ->
                   /\ requests' = Append(requests, IncomingMsg(h, line, msg))
                   /\ UNCHANGED <<rep, hstate>>
              [] msg.type = "ping" ->
                   HandlerSendBack(h, Pong) /\ UNCHANGED requests
              [] msg.type = "*IDN?" ->
                   HandlerSendBack(h, IdnReply) /\ UNCHANGED requests
              [] OTHER -> UNCHANGED <<rep, hstate, requests>>
    /\ UNCHANGED <<next_hid, wstate, quit_sent, connections, replies, modreq, dvars, mvars>>

\* Handler::handle leaving its loop (EOF, read error, request length limit):
\* the reader sends (hid, Quit) and finishes
HandleClose(h) ==
    /\ hstate[h] = "run"
    /\ hstate' = [hstate EXCEPT ![h] = "quit"]
    /\ requests' = Append(requests, IncomingMsg(h, NoLine, Quit))
    /\ quit_sent' = quit_sent \cup {h}
    /\ UNCHANGED <<next_hid, wstate, rep, nlines, sent, connections, replies, modreq, dvars, mvars>>

\* Handler::sender: a write error ends the writer thread, which drops the
\* receiver of the reply channel
WriterFail(h) ==
    /\ wstate[h] = "run"
    /\ rep[h] # <<>>
    /\ wstate' = [wstate EXCEPT ![h] = "dead"]
    /\ UNCHANGED <<next_hid, hstate, rep, quit_sent, nlines, sent, connections, requests,
                   replies, modreq, dvars, mvars>>

(* ---------------- module worker (module.rs, derive/module.rs) ---------------- *)
\* Default::default() of the parameter's Repr (ModParam::new)
DefaultVal == 0
\* a hook that returns Err
HookErr == -1
\* results of a parameter's read hook
ReadResults == Values \cup {HookErr}

\* Int::to_json / Int::from_json: the value must lie within the datainfo
Valid(v) == v >= MinVal /\ v <= MaxVal

\* ModParam::update: the new cache value (stored before the value is converted)
UpdateCache(old, v) == IF v # old THEN v ELSE old

\* The generated read(): the read hook delivered res.  Result: the new cache
\* value, the update broadcast with hid None (or none) and Ok(value) / Err(class).
ReadParam(m, p, old, res) ==
    IF p # Param THEN [cache |-> old, bcast |-> <<>>, ok |-> FALSE, val |-> "NoSuchParameter"]
    ELSE IF res = HookErr
    THEN [cache |-> old, bcast |-> <<>>, ok |-> FALSE, val |-> "CommunicationFailed"]
    ELSE IF ~Valid(res)
    THEN [cache |-> UpdateCache(old, res), bcast |-> <<>>, ok |-> FALSE, val |-> "BadValue"]
    ELSE [cache |-> UpdateCache(old, res),
          bcast |-> IF res # old THEN <<ModRep(None, Update(m, p, res))>> ELSE <<>>,
          ok |-> TRUE, val |-> res]

\* The generated change() of a writable hardware parameter: from_json, write
\* hook (werr: it fails), then read()
ChangeParam(m, p, old, v, werr, res) ==
    IF p # Param THEN [cache |-> old, bcast |-> <<>>, ok |-> FALSE, val |-> "NoSuchParameter"]
    ELSE IF ~Valid(v)
    THEN [cache |-> old, bcast |-> <<>>, ok |-> FALSE, val |-> "BadValue"]
    ELSE IF werr
    THEN [cache |-> old, bcast |-> <<>>, ok |-> FALSE, val |-> "CommunicationFailed"]
    ELSE ReadParam(m, p, old, res)

\* The generated activate_updates(): one update per parameter whose cached
\* value converts to JSON
ActivateUpdates(m, c) ==
    IF Valid(c) THEN <<Update(m, Param, c)>> ELSE <<>>

\* ModuleBase::run up to the event loop: create, init_params (the parameter is
\* read from the hardware), setup, Describing
ModStart(m) ==
    /\ mstate[m] = "init"
    /\ \E res \in ReadResults :
         LET r == ReadParam(m, Param, DefaultVal, res) IN
         IF r.ok
         THEN /\ mstate' = [mstate EXCEPT ![m] = "loop"]
              /\ cache' = [cache EXCEPT ![m] = r.cache]
              /\ replies' = SendAll(replies, r.bcast \o
                     <<ModRep(None, Describing(m, <<Structure(m)>>))>>)
         ELSE \* panic!("error initializing params")
              /\ mstate' = [mstate EXCEPT ![m] = "dead"]
              /\ cache' = [cache EXCEPT ![m] = r.cache]
              /\ replies' = SendAll(replies, r.bcast)
    /\ UNCHANGED <<hvars, rep, connections, requests, modreq, dvars, npoll, xvars, lvars>>

\* The reply of the event loop to one request; hw, werr: what the hooks do
ModReply(m, req, c, res, werr) ==
    LET msg == req.msg IN
    CASE msg.type = "read" ->
           LET r == ReadParam(m, msg.acc, c, res) IN
           [cache |-> r.cache, bcast |-> r.bcast,
            rep |-> IF r.ok THEN Update(msg.module, msg.acc, r.val)
                    ELSE ErrMsg(r.val, req.line, "")]
      [] msg.type = "change" ->
           LET r == ChangeParam(m, msg.acc, c, msg.data[1], werr, res) IN
           [cache |-> r.cache, bcast |-> r.bcast,
            rep |-> IF r.ok THEN Changed(msg.module, msg.acc, r.val)
                    ELSE ErrMsg(r.val, req.line, "")]
      [] msg.type = "do" ->
           [cache |-> c, bcast |-> <<>>,
            rep |-> IF msg.acc # Command THEN ErrMsg("NoSuchCommand", req.line, "")
                    ELSE IF werr THEN ErrMsg("CommandFailed", req.line, "")
                    ELSE Done(msg.module, msg.acc)]
      [] msg.type = "activate" ->
           [cache |-> c, bcast |-> <<>>,
            rep |-> InitUpdates(msg.module, ActivateUpdates(m, c))]

\* the request arm of the event loop in ModuleBase::run
ModHandle(m) ==
    /\ mstate[m] = "loop"
    /\ modreq[m] # <<>>
    /\ \E res \in ReadResults, werr \in BOOLEAN :
         LET req == Head(modreq[m])
             r == ModReply(m, req, cache[m], res, werr) IN
         /\ cache' = [cache EXCEPT ![m] = r.cache]
         /\ replies' = SendAll(replies, r.bcast \o <<ModRep(req.hid, r.rep)>>)
    /\ modreq' = [modreq EXCEPT ![m] = Tail(@)]
    /\ UNCHANGED <<hvars, rep, connections, requests, dvars, mstate, npoll, xvars, lvars>>

\* a poll ticker arm of the event loop: poll_normal / poll_busy read the parameter
ModPoll(m) ==
    /\ mstate[m] = "loop"
    /\ npoll < MaxPoll
    /\ npoll' = npoll + 1
    /\ \E res \in ReadResults :
         LET r == ReadParam(m, Param, cache[m], res) IN
         /\ cache' = [cache EXCEPT ![m] = r.cache]
         /\ replies' = SendAll(replies, r.bcast)
    /\ UNCHANGED <<hvars, rep, connections, requests, modreq, dvars, mstate, xvars, lvars>>

(* ---------------- one parameter in detail (module.rs, derive/module.rs) ---------------- *)
\* the #[param] declarations derive_module accepts: a software-only parameter
\* is not polled; a readonly hardware parameter has no default
Defaults == {<<>>} \cup {<<v>> : v \in Values \ {DefaultVal}}
Pollings == {-2, 0, 1, 2}
Decls ==
    {d \in [swonly : BOOLEAN, readonly : BOOLEAN, default : Defaults, polling : Pollings] :
        /\ d.swonly => d.polling = 0
        /\ (~d.swonly /\ d.readonly) => d.default = <<>>}

\* the periods (ms) of the tickers Server::start creates: poll_normal, poll_busy
StartTickers == <<1000, 1000>>

\* the server variables, which the operations on the parameter leave alone
srvars == <<hvars, rep, connections, requests, replies, modreq, dvars,
            mstate, cache, npoll, xvars>>
svars == <<srvars, cvars, uvars>>

\* Result<Value>: Ok([value, {"t": time}]) or Err(class)
Ok(op, arg, v, t) == [op |-> op, arg |-> arg, ok |-> TRUE, val |-> v, time |-> t, class |-> ""]
Err(op, arg, class) == [op |-> op, arg |-> arg, ok |-> FALSE, val |-> 0, time |-> 0, class |-> class]

\* ModParam::set
ModParamSet(value, t) == [data |-> value, time |-> t]

\* an update() that keeps the timestamp of the entry
ModParamUpdate_KeepTime(c, value, t) == [data |-> UpdateCache(c.data, value), time |-> c.time]

\* ModParam::update: the new cache entry; the time is refreshed and the value
\* is stored before it is converted
ModParamUpdate(c, value, t) == [data |-> UpdateCache(c.data, value), time |-> t]

\* the outcome of an operation on the parameter: the cache entry, the hooks
\* invoked, the updates sent with hid None, the result
Outcome(c, hooks, bcast, res) == [param |-> c, calls |-> hooks, updates |-> bcast, result |-> res]

\* the generated read() (par_read_arms); res: what the read hook returns
ParamRead(d, c, t, res) ==
    IF d.swonly
    THEN IF Valid(c.data)
         THEN Outcome(c, <<>>, <<>>, Ok("read", 0, c.data, c.time))
         ELSE Outcome(c, <<>>, <<>>, Err("read", 0, "BadValue"))
    ELSE IF res = HookErr
    THEN Outcome(c, <<"read">>, <<>>, Err("read", 0, "CommunicationFailed"))
    ELSE IF ~Valid(res)
    THEN Outcome(ModParamUpdate(c, res, t), <<"read">>, <<>>, Err("read", 0, "BadValue"))
    ELSE Outcome(ModParamUpdate(c, res, t), <<"read">>,
                 IF res # c.data THEN <<[value |-> res, time |-> t]>> ELSE <<>>,
                 Ok("read", 0, res, t))

\* a change() that calls the write hook before it validates the value
ParamChange_HookFirst(d, c, t, v, werr, res) ==
    IF d.readonly THEN Outcome(c, <<>>, <<>>, Err("change", v, "ReadOnly"))
    ELSE IF werr THEN Outcome(c, <<"write">>, <<>>, Err("change", v, "CommunicationFailed"))
    ELSE IF ~Valid(v) THEN Outcome(c, <<"write">>, <<>>, Err("change", v, "BadValue"))
    ELSE Outcome(ModParamUpdate(c, v, t), <<"write">>,
                 IF v # c.data THEN <<[value |-> v, time |-> t]>> ELSE <<>>,
                 Ok("change", v, v, t))

\* the generated change() (par_write_arms); werr: the write hook or the
\* update hook fails; res: what the read hook returns
ParamChange(d, c, t, v, werr, res) ==
    IF d.readonly THEN Outcome(c, <<>>, <<>>, Err("change", v, "ReadOnly"))
    ELSE IF ~Valid(v) THEN Outcome(c, <<>>, <<>>, Err("change", v, "BadValue"))
    ELSE IF d.swonly
    THEN LET new == ModParamUpdate(c, v, t) IN
         IF v = c.data
         THEN Outcome(new, <<>>, <<>>, Ok("change", v, v, t))
         ELSE Outcome(new, <<"update">>, <<[value |-> v, time |-> t]>>,
                      IF werr THEN Err("change", v, "CommunicationFailed")
                      ELSE Ok("change", v, v, t))
    ELSE IF werr
    THEN Outcome(c, <<"write">>, <<>>, Err("change", v, "CommunicationFailed"))
    ELSE LET r == ParamRead(d, c, t, res) IN
         Outcome(r.param, <<"write">> \o r.calls, r.updates,
                 IF r.result.ok THEN Ok("change", v, r.result.val, r.result.time)
                 ELSE Err("change", v, r.result.class))

\* the generated command() (cmd_arms): the argument is decoded, then the do
\* hook runs (derr: it fails)
ParamCommand(c, t, arg, derr) ==
    IF ~Valid(arg) THEN Outcome(c, <<>>, <<>>, Err("do", arg, "BadValue"))
    ELSE IF derr THEN Outcome(c, <<"do">>, <<>>, Err("do", arg, "CommandFailed"))
    ELSE Outcome(c, <<"do">>, <<>>, Ok("do", arg, 0, t))

\* the worker applies the outcome of an operation
Apply(o) ==
    /\ param' = o.param
    /\ calls' = o.calls
    /\ updates' = o.updates
    /\ result' = o.result

\* Msg::Read
DoRead ==
    /\ pstate = "ready"
    /\ \E res \in ReadResults : Apply(ParamRead(decl, param, now, res))
    /\ UNCHANGED <<svars, decl, cfg, pstate, now, status, poll_normal_counter,
                   poll_busy_counter, poll_tickers>>

\* Msg::Change
DoChange ==
    /\ pstate = "ready"
    /\ \E v \in Values, werr \in BOOLEAN, res \in ReadResults :
          Apply(ParamChange(decl, param, now, v, werr, res))
    /\ UNCHANGED <<svars, decl, cfg, pstate, now, status, poll_normal_counter,
                   poll_busy_counter, poll_tickers>>

\* Msg::Do
DoCommand ==
    /\ pstate = "ready"
    /\ \E arg \in Values, derr \in BOOLEAN : Apply(ParamCommand(param, now, arg, derr))
    /\ UNCHANGED <<svars, decl, cfg, pstate, now, status, poll_normal_counter,
                   poll_busy_counter, poll_tickers>>

\* an init_parameter that pulls every parameter from the hardware
InitParameter_Read(d, cf, c, t, werr, res) ==
    LET r == ParamRead(d, c, t, res) IN
    Outcome(r.param, r.calls, r.updates,
            IF r.result.ok THEN Ok("init", 0, r.result.val, r.result.time)
            ELSE Err("init", 0, r.result.class))

\* ModuleBase::init_parameter; cf: the config override (<<>> or <<value>>);
\* werr, res: what the hooks do.  The calls of the outcome are the steps
\* taken: "from_json" (decode the config value), "default" (call default()),
\* "set" (store in the cache), "change" followed by the hooks of change(),
\* and the hooks "update" and "read".
InitParameter(d, cf, c, t, werr, res) ==
    IF d.swonly
    THEN IF d.default = <<>> /\ cf = <<>>
         THEN \* self.config().parameters[param] on a missing key
              Outcome(c, <<>>, <<>>, Err("init", 0, "InternalError"))
         ELSE IF cf # <<>> /\ ~Valid(cf[1])
         THEN Outcome(c, <<"from_json">>, <<>>, Err("init", cf[1], "BadValue"))
         ELSE LET value == IF cf # <<>> THEN cf[1] ELSE d.default[1]
                  from == IF cf # <<>> THEN "from_json" ELSE "default"
                  new == ModParamSet(value, t) IN
              IF d.readonly
              THEN Outcome(new, <<from, "set">>, <<>>, Ok("init", value, value, t))
              ELSE Outcome(new, <<from, "set", "update">>, <<>>,
                           IF werr THEN Err("init", value, "CommunicationFailed")
                           ELSE Ok("init", value, value, t))
    ELSE IF ~d.readonly /\ (cf # <<>> \/ d.default # <<>>)
    THEN IF cf = <<>> /\ ~Valid(d.default[1])
         THEN \* datainfo.to_json(def().into())?
              Outcome(c, <<"default">>, <<>>, Err("init", d.default[1], "BadValue"))
         ELSE LET value == IF cf # <<>> THEN cf[1] ELSE d.default[1]
                  from == IF cf # <<>> THEN <<>> ELSE <<"default">>
                  r == ParamChange(d, c, t, value, werr, res) IN
              Outcome(r.param, from \o <<"change">> \o r.calls, r.updates,
                      IF r.result.ok THEN Ok("init", value, r.result.val, r.result.time)
                      ELSE Err("init", value, r.result.class))
    ELSE LET r == ParamRead(d, c, t, res) IN
         Outcome(r.param, r.calls, r.updates,
                 IF r.result.ok THEN Ok("init", 0, r.result.val, r.result.time)
                 ELSE Err("init", 0, r.result.class))

\* init_params in ModuleBase::run: an error panics the worker
DoInit ==
    /\ pstate = "new"
    /\ \E werr \in BOOLEAN, res \in ReadResults :
          LET o == InitParameter(decl, cfg, param, now, werr, res) IN
          /\ Apply(o)
          /\ pstate' = IF o.result.ok THEN "ready" ELSE "failed"
    /\ UNCHANGED <<svars, decl, cfg, now, status, poll_normal_counter,
                   poll_busy_counter, poll_tickers>>

\* inner_run creates the module again from its ModInternals: a new cache
\* (ModParam::new), the tickers of Server::start
DoRestart ==
    /\ pstate = "failed"
    /\ pstate' = "new"
    /\ param' = [data |-> DefaultVal, time |-> now]
    /\ poll_tickers' = StartTickers
    /\ poll_normal_counter' = 0
    /\ poll_busy_counter' = 0
    /\ UNCHANGED <<svars, decl, cfg, now, calls, result, updates, status>>

\* the parameters with p > 0 / p < 0 that tick n selects (polling stanza)
PollBusyParams(d, n) == d.polling > 0 /\ n % d.polling = 0
PollOtherParams(d, n) == d.polling < 0 /\ n % (0 - d.polling) = 0

\* a poll_normal that does not look at the status
PollNormalReads_Twice(d, st, n) == PollBusyParams(d, n) \/ PollOtherParams(d, n)

\* poll_normal(n) reads the parameter
PollNormalReads(d, st, n) == (st # "Busy" /\ PollBusyParams(d, n)) \/ PollOtherParams(d, n)

\* poll_busy(n) reads the parameter
PollBusyReads(d, st, n) == st = "Busy" /\ PollBusyParams(d, n)

\* `let _ = self.read(name)` if the parameter is selected; the result is the
\* one the poll drops
Poll(op, d, c, t, n, sel, res) ==
    IF sel
    THEN LET r == ParamRead(d, c, t, res) IN
         Outcome(r.param, r.calls, r.updates, [r.result EXCEPT !.op = op, !.arg = n])
    ELSE Outcome(c, <<>>, <<>>, Ok(op, n, 0, 0))

\* recv(poll_tickers.0)
PollNormal ==
    /\ pstate = "ready"
    /\ poll_normal_counter < MaxTicks
    /\ \E res \in ReadResults :
          Apply(Poll("poll_normal", decl, param, now, poll_normal_counter,
                     PollNormalReads(decl, status, poll_normal_counter), res))
    /\ poll_normal_counter' = poll_normal_counter + 1
    /\ UNCHANGED <<svars, decl, cfg, pstate, now, status, poll_busy_counter, poll_tickers>>

\* recv(poll_tickers.1)
PollBusy ==
    /\ pstate = "ready"
    /\ poll_busy_counter < MaxTicks
    /\ \E res \in ReadResults :
          Apply(Poll("poll_busy", decl, param, now, poll_busy_counter,
                     PollBusyReads(decl, status, poll_busy_counter), res))
    /\ poll_busy_counter' = poll_busy_counter + 1
    /\ UNCHANGED <<svars, decl, cfg, pstate, now, status, poll_normal_counter, poll_tickers>>

\* the cached status of the module changes (a read of its status parameter)
SetStatus ==
    /\ pstate = "ready"
    /\ status' \in {"Idle", "Busy"} \ {status}
    /\ UNCHANGED <<svars, decl, cfg, pstate, param, now, calls, result, updates,
                   poll_normal_counter, poll_busy_counter, poll_tickers>>

\* pollinterval values written, in milliseconds
PollIntervals == {3, 1000}

\* ModuleBase::update_pollinterval; val in milliseconds: the periods are
\* (val * 1000.) as u64 and (val * 200.) as u64 of the value in seconds
UpdatePollinterval(val) == <<val, (val * 200) \div 1000>>

\* a write of pollinterval
DoPollinterval ==
    /\ pstate = "ready"
    /\ \E val \in PollIntervals : poll_tickers' = UpdatePollinterval(val)
    /\ UNCHANGED <<svars, decl, cfg, pstate, param, now, calls, result, updates, status,
                   poll_normal_counter, poll_busy_counter>>

\* time passes
Tick ==
    /\ now < MaxTime
    /\ now' = now + 1
    /\ UNCHANGED <<svars, decl, cfg, pstate, param, calls, result, updates, status,
                   poll_normal_counter, poll_busy_counter, poll_tickers>>

(* ---------------- the bytes of a stream ---------------- *)
\* the newline, the carriage return and any other byte
NL == "\n"
CR == "\r"
Bytes == {"x", CR, NL}

(* ---------------- the communicator (modules/src/support/comm.rs) ---------------- *)
\* the end-of-line sequence of the client (CommThread::spawn, eol)
eol == <<CR, NL>>

\* the bytes a device can send
MaxDevice == 4
\* the size of the reader thread's buf ([0; 1024])
CommBuf == 2
\* the timeout of the client, in ticks
CommTimeout == 1
\* calls of the client
MaxReadlines == 2

\* buffer.windows(neol).position(|ch| ch == eol): the starts of the windows
\* that hold the end-of-line sequence
EolAt(b) == {i \in 1..(Len(b) - Len(eol) + 1) : SubSeq(b, i, i + Len(eol) - 1) = eol}

\* buffer.windows(eol.len()).any(|ch| ch == eol)
HasEol(b) == EolAt(b) # {}

\* CommClient::get_line: the line returned and the buffer left; .unwrap()
\* panics when the buffer holds no end-of-line sequence
GetLine(b) ==
    IF ~HasEol(b) THEN [kind |-> "panic", line |-> <<>>, left |-> b]
    ELSE LET end == CHOOSE i \in EolAt(b) : \A j \in EolAt(b) : i <= j IN
         [kind |-> "line", line |-> SubSeq(b, 1, end - 1),
          left |-> SubSeq(b, end + Len(eol), Len(b))]

\* wait_eol: Err(comm_failed("no response"))
NoResponse == [kind |-> "no response", line |-> <<>>]

\* a spawned communicator whose client has made no call
CommIdle ==
    /\ device = <<>>
    /\ buffer = <<>>
    /\ waiter = "idle"
    /\ rl_waited = 0
    /\ rl_ncalls = 0
    /\ rl_result = [kind |-> "", line |-> <<>>]
    /\ line_seen = FALSE

\* CommThread::thread, Ok(n): n bytes are appended to the shared buffer under
\* its lock; notify_one wakes the client if it waits, and is lost otherwise
CommThreadRead ==
    /\ \E n \in 1..CommBuf :
          /\ n <= Len(device)
          /\ buffer' = buffer \o SubSeq(device, 1, n)
          /\ device' = SubSeq(device, n + 1, Len(device))
    /\ waiter' = IF HasEol(buffer') /\ waiter = "waiting" THEN "notified" ELSE waiter
    /\ line_seen' = (line_seen \/ (waiter # "idle" /\ HasEol(buffer')))
    /\ UNCHANGED <<srvars, pvars, cvars, bvars, fvars, rl_waited, rl_ncalls, rl_result>>

\* CommClient::readline up to the wait: the lock is taken and wait_for
\* releases it
Readline ==
    /\ waiter = "idle"
    /\ rl_ncalls < MaxReadlines
    /\ rl_ncalls' = rl_ncalls + 1
    /\ waiter' = "waiting"
    /\ rl_waited' = 0
    /\ line_seen' = HasEol(buffer)
    /\ UNCHANGED <<srvars, pvars, cvars, bvars, fvars, device, buffer, rl_result>>

\* CommClient::communicate up to the wait: the buffer is cleared, the input
\* is written, wait_for releases the lock
Communicate ==
    /\ waiter = "idle"
    /\ rl_ncalls < MaxReadlines
    /\ rl_ncalls' = rl_ncalls + 1
    /\ buffer' = <<>>
    /\ waiter' = "waiting"
    /\ rl_waited' = 0
    /\ line_seen' = FALSE
    /\ UNCHANGED <<srvars, pvars, cvars, bvars, fvars, device, rl_result>>

\* time passes while the client waits
CommTick ==
    /\ waiter = "waiting"
    /\ rl_waited < CommTimeout
    /\ rl_waited' = rl_waited + 1
    /\ UNCHANGED <<srvars, pvars, cvars, bvars, fvars, device, buffer, waiter, rl_ncalls,
                   rl_result, line_seen>>

\* wait_for(..).timed_out(): the call returns "no response"
WaitEolTimedOut ==
    /\ waiter = "waiting"
    /\ rl_waited = CommTimeout
    /\ waiter' = "idle"
    /\ rl_result' = NoResponse
    /\ UNCHANGED <<srvars, pvars, cvars, bvars, fvars, device, buffer, rl_waited, rl_ncalls,
                   line_seen>>

\* wait_for returns after a notification: the lock is taken again and
\* get_line takes the first line out of the buffer
WaitEolNotified ==
    /\ waiter = "notified"
    /\ waiter' = "idle"
    /\ rl_result' = [kind |-> GetLine(buffer).kind, line |-> GetLine(buffer).line]
    /\ buffer' = GetLine(buffer).left
    /\ UNCHANGED <<srvars, pvars, cvars, bvars, fvars, device, rl_waited, rl_ncalls, line_seen>>

(* ---------------- the reader thread in detail (server.rs) ---------------- *)

\* the streams a client can send
RECURSIVE StreamsOf(_)
StreamsOf(n) ==
    IF n = 0 THEN {<<>>}
    ELSE LET shorter == StreamsOf(n - 1) IN
         shorter \cup {Append(s, b) : s \in {t \in shorter : Len(t) = n - 1}, b \in Bytes}
Streams == StreamsOf(MaxStream)

\* a line that keeps its carriage returns
TrimCr_Keep(line) == line

\* line_str.trim_right_matches('\r')
TrimCr(line) ==
    LET others == {i \in 1..Len(line) : line[i] # CR} IN
    IF others = {} THEN <<>>
    ELSE SubSeq(line, 1, CHOOSE i \in others : \A j \in others : j <= i)

\* the `while let Some(to) = memchr(...)` loop of Handler::handle: the whole
\* lines of the buffer, which are processed, and what buf.drain(..from) leaves
RECURSIVE WholeLines(_)
WholeLines(b) ==
    LET ends == {i \in 1..Len(b) : b[i] = NL} IN
    IF ends = {} THEN [lines |-> <<>>, rest |-> b]
    ELSE LET to == CHOOSE i \in ends : \A j \in ends : i <= j
             r == WholeLines(SubSeq(b, to + 1, Len(b))) IN
         [lines |-> <<TrimCr(SubSeq(b, 1, to - 1))>> \o r.lines, rest |-> r.rest]

\* the state of a reader thread that is not looked at
UnitsIdle ==
    /\ CommIdle
    /\ stream = <<>>
    /\ buf = <<>>
    /\ parsed = <<>>
    /\ hdone = FALSE
    /\ input = <<>>
    /\ applied = <<>>
    /\ output = <<>>

\* one turn of the loop of Handler::handle: read(&mut recvbuf) returns got
\* bytes, the whole lines are processed, the length of the rest is checked
HandleRead ==
    /\ ~hdone
    /\ stream # <<>>
    /\ \E got \in 1..RECVBUF_LEN :
          /\ got <= Len(stream)
          /\ LET w == WholeLines(buf \o SubSeq(stream, 1, got)) IN
             /\ parsed' = parsed \o w.lines
             /\ buf' = w.rest
             /\ hdone' = (Len(w.rest) > MAX_MSG_LEN)
          /\ stream' = SubSeq(stream, got + 1, Len(stream))
    /\ UNCHANGED <<srvars, pvars, cvars, kvars, fvars>>

\* read returns Ok(0): the client has closed the connection
HandleEof ==
    /\ ~hdone
    /\ stream = <<>>
    /\ hdone' = TRUE
    /\ UNCHANGED <<srvars, pvars, cvars, kvars, fvars, stream, buf, parsed>>

(* ---------------- messages on the wire (proto.rs) ---------------- *)
\* A text is a sequence of atoms: a maximal run of word characters (\w), or
\* one character that is no word character.
Punct == {" ", ":", ".", "*", "?", "&", ",", "-", "<", ">", "\\", "\"", "[", "]"}
IsWord(a) == a \notin Punct

\* JSON values of the model and their serde_json texts: null, 1, "a b", [1]
JsonValues == {"null", "one", "string", "array"}
JsonText(v) ==
    CASE v = "null" -> <<"null">>
      [] v = "one" -> <<"1">>
      [] v = "string" -> <<"\"", "a", " ", "b", "\"">>
      [] v = "array" -> <<"[", "1", "]">>

\* serde_json::from_str: the value of a text, or an error
JsonParse(text) ==
    IF \E v \in JsonValues : JsonText(v) = text
    THEN [ok |-> TRUE, value |-> CHOOSE v \in JsonValues : JsonText(v) = text]
    ELSE [ok |-> FALSE, value |-> "null"]

\* IDENT_REPLY
IDENT_REPLY == <<"SINE2020", "&", "ISSE", ",", "SECoP", ",", "V2018", "-", "11", "-", "07",
                 ",", "v1", ".", "0", "\\", "beta">>

\* a Msg that goes over the wire: its variant and its fields (a string is a
\* text, an unused field is empty)
WireMsg(kind, a, b, data) == [kind |-> kind, module |-> a, param |-> b, data |-> data]

\* impl Display for Msg
Display(m) ==
    CASE m.kind \in {"update", "changed", "done", "change", "do"} ->
           <<m.kind, " ">> \o m.module \o <<":">> \o m.param \o <<" ">> \o JsonText(m.data)
      [] m.kind \in {"describing", "pong", "error"} ->
           <<m.kind, " ">> \o m.module \o <<" ">> \o JsonText(m.data)
      [] m.kind \in {"active", "inactive", "activate", "deactivate", "ping"} ->
           IF m.module = <<>> THEN <<m.kind>> ELSE <<m.kind, " ">> \o m.module
      [] m.kind = "read" -> <<m.kind, " ">> \o m.module \o <<":">> \o m.param
      [] m.kind = "describe" -> <<"describe">>
      [] m.kind = "*IDN?" -> <<"*", "IDN", "?">>
      [] m.kind = "IdnReply" -> m.module

\* the character classes of MSG_RE
TypeAtom(a) == IsWord(a) \/ a \in {"*", "?"}
SpecAtom(a) == IsWord(a) \/ a \in {":", "<", ">"}

\* the length of the longest initial part of s that [*?\w]+ can take
RECURSIVE TypeRun(_)
TypeRun(s) ==
    IF s # <<>> /\ TypeAtom(s[1]) THEN 1 + TypeRun(Tail(s)) ELSE 0

\* the length of the longest initial part of s that [\w:<>]+ can take
RECURSIVE SpecRun(_)
SpecRun(s) ==
    IF s # <<>> /\ SpecAtom(s[1]) THEN 1 + SpecRun(Tail(s)) ELSE 0

\* MSG_RE.captures: ^(type)(?:\s(spec)(?:\s(json))?)?$
MsgRe(s) ==
    LET n1 == TypeRun(s)
        after == SubSeq(s, n1 + 2, Len(s))
        n2 == SpecRun(after)
        no == [ok |-> FALSE, type |-> <<>>, spec |-> <<>>, has_json |-> FALSE, json |-> <<>>]
    IN
    IF n1 = 0 THEN no
    ELSE IF n1 = Len(s)
    THEN [ok |-> TRUE, type |-> s, spec |-> <<>>, has_json |-> FALSE, json |-> <<>>]
    ELSE IF s[n1 + 1] # " " \/ n2 = 0 THEN no
    ELSE IF n2 = Len(after)
    THEN [ok |-> TRUE, type |-> SubSeq(s, 1, n1), spec |-> after,
          has_json |-> FALSE, json |-> <<>>]
    ELSE IF after[n2 + 1] # " " THEN no
    ELSE [ok |-> TRUE, type |-> SubSeq(s, 1, n1), spec |-> SubSeq(after, 1, n2),
          has_json |-> TRUE, json |-> SubSeq(after, n2 + 2, Len(after))]

\* specifier.splitn(2, ':')
Splitn(spec) ==
    LET colons == {i \in 1..Len(spec) : spec[i] = ":"} IN
    IF colons = {} THEN [first |-> spec, has_rest |-> FALSE, rest |-> <<>>]
    ELSE LET c == CHOOSE i \in colons : \A j \in colons : i <= j IN
         [first |-> SubSeq(spec, 1, c - 1), has_rest |-> TRUE,
          rest |-> SubSeq(spec, c + 1, Len(spec))]

ParseErr(msg) == [ok |-> FALSE, err |-> msg]
ParseOkay(m) == [ok |-> TRUE, msg |-> m]

\* Msg::parse_inner
ParseInner(s) ==
    LET cap == MsgRe(s)
        split == Splitn(cap.spec)
        data == IF cap.has_json THEN JsonParse(cap.json) ELSE [ok |-> TRUE, value |-> "null"]
        verb == IF Len(cap.type) = 1 THEN cap.type[1] ELSE "" IN
    IF cap.ok
    THEN IF ~data.ok THEN ParseErr("invalid JSON")
         ELSE IF verb \in {"read", "change", "do", "update", "changed", "done"}
         THEN IF ~split.has_rest THEN ParseErr("missing parameter")
              ELSE ParseOkay(WireMsg(verb, split.first, split.rest,
                                     IF verb = "read" THEN "null" ELSE data.value))
         ELSE IF verb \in {"activate", "deactivate", "active", "inactive"}
         THEN ParseOkay(WireMsg(verb, split.first, <<>>, "null"))
         ELSE IF verb = "describe" THEN ParseOkay(WireMsg(verb, <<>>, <<>>, "null"))
         ELSE IF verb = "ping" THEN ParseOkay(WireMsg(verb, cap.spec, <<>>, "null"))
         ELSE IF verb \in {"describing", "pong", "error"}
         THEN ParseOkay(WireMsg(verb, cap.spec, <<>>, data.value))
         ELSE IF cap.type = <<"*", "IDN", "?">> THEN ParseOkay(WireMsg("*IDN?", <<>>, <<>>, "null"))
         ELSE ParseErr("no such message type")
    ELSE IF s = IDENT_REPLY THEN ParseOkay(WireMsg("IdnReply", IDENT_REPLY, <<>>, "null"))
    ELSE ParseErr("invalid message format")

\* the messages the server sends to its clients
OutwardMsgs ==
    {WireMsg(k, <<m>>, <<p>>, d) :
        k \in {"update", "changed", "done"}, m \in Modules, p \in {Param, Command},
        d \in JsonValues}
    \cup {WireMsg("describing", <<".">>, <<>>, d) : d \in JsonValues}
    \cup {WireMsg(k, m, <<>>, "null") : k \in {"active", "inactive"},
                                       m \in {<<>>} \cup {<<n>> : n \in Modules}}
    \cup {WireMsg("pong", t, <<>>, d) : t \in {<<>>, <<"tok">>}, d \in JsonValues}
    \cup {WireMsg("error", <<c>>, <<>>, d) : c \in {"BadValue", "NoSuchModule"},
                                           d \in JsonValues}
    \cup {WireMsg("*IDN?", <<>>, <<>>, "null"), WireMsg("IdnReply", IDENT_REPLY, <<>>, "null")}

\* the writer thread formats a message
ApplyDisplay ==
    /\ applied = <<>>
    /\ input \in OutwardMsgs
    /\ applied' = <<"Display">>
    /\ output' = <<Display(input)>>
    /\ UNCHANGED <<srvars, pvars, cvars, kvars, bvars, input>>

\* a reader thread parses the line
ApplyParse ==
    /\ applied = <<"Display">>
    /\ applied' = <<"Display", "parse">>
    /\ output' = Append(output, ParseInner(output[1]))
    /\ UNCHANGED <<srvars, pvars, cvars, kvars, bvars, input>>

(* ---------------- data types (types.rs) ---------------- *)
MaxNum == 2       \* numbers range over -MaxNum..MaxNum
MaxItems == 3     \* bytes, characters and items of a value

SeqsUpTo(S, n) == UNION {[1..k -> S] : k \in 0..n}

\* serde_json::Value: an integer, a float, a string, an array
JInt(n) == [j |-> "int", v |-> n]
JFloat(x) == [j |-> "float", v |-> x]
JString(s) == [j |-> "string", v |-> s]
JArray(a) == [j |-> "array", v |-> a]

\* Result<_, Error>; amend puts the place of the error before its message
TypeOk(v) == [ok |-> TRUE, value |-> v]
BadValue(msg) == [ok |-> FALSE, err |-> "BadValue", msg |-> msg]
Amend(e, place) == [e EXCEPT !.msg = <<place>> \o @]

\* an f64 is a whole number of steps of the grid; x / scale rounded half
\* away from zero
Round(x, scale) ==
    IF x >= 0 THEN (2 * x + scale) \div (2 * scale)
    ELSE 0 - ((2 * (0 - x) + scale) \div (2 * scale))

\* base64::encode: three bytes give four symbols 0..63, 64 is the padding
Pad == 64
RECURSIVE Base64Encode(_)
Base64Encode(b) ==
    IF b = <<>> THEN <<>>
    ELSE IF Len(b) = 1
    THEN <<b[1] \div 4, (b[1] % 4) * 16, Pad, Pad>>
    ELSE IF Len(b) = 2
    THEN <<b[1] \div 4, (b[1] % 4) * 16 + b[2] \div 16, (b[2] % 16) * 4, Pad>>
    ELSE <<b[1] \div 4, (b[1] % 4) * 16 + b[2] \div 16,
           (b[2] % 16) * 4 + b[3] \div 64, b[3] % 64>>
         \o Base64Encode(SubSeq(b, 4, Len(b)))

\* base64::decode
RECURSIVE Base64Decode(_)
Base64Decode(s) ==
    IF s = <<>> THEN TypeOk(<<>>)
    ELSE IF Len(s) < 4 \/ s[1] = Pad \/ s[2] = Pad THEN BadValue(<<"base64">>)
    ELSE IF Len(s) = 4 /\ s[3] = Pad
    THEN IF s[4] = Pad /\ s[2] % 16 = 0
         THEN TypeOk(<<s[1] * 4 + s[2] \div 16>>)
         ELSE BadValue(<<"base64">>)
    ELSE IF Len(s) = 4 /\ s[4] = Pad
    THEN IF s[3] % 4 = 0
         THEN TypeOk(<<s[1] * 4 + s[2] \div 16, (s[2] % 16) * 16 + s[3] \div 4>>)
         ELSE BadValue(<<"base64">>)
    ELSE IF s[3] = Pad \/ s[4] = Pad THEN BadValue(<<"base64">>)
    ELSE LET rest == Base64Decode(SubSeq(s, 5, Len(s))) IN
         IF rest.ok
         THEN TypeOk(<<s[1] * 4 + s[2] \div 16, (s[2] % 16) * 16 + s[3] \div 4,
                       (s[3] % 4) * 64 + s[4]>> \o rest.value)
         ELSE rest

\* Option<f64>
NoBound == [some |-> FALSE, v |-> 0]
Bound(x) == [some |-> TRUE, v |-> x]

\* Double::check
DoubleCheck(d, v) ==
    IF d.min.some /\ d.max.some
    THEN IF v < d.min.v \/ v > d.max.v THEN BadValue(<<"expected double between">>)
         ELSE TypeOk(TRUE)
    ELSE IF d.min.some
    THEN IF v < d.min.v THEN BadValue(<<"expected double above">>) ELSE TypeOk(TRUE)
    ELSE IF d.max.some
    THEN IF v > d.max.v THEN BadValue(<<"expected double below">>) ELSE TypeOk(TRUE)
    ELSE TypeOk(TRUE)

\* the results of the items of a value, the first error if there is one
RECURSIVE Collect(_, _)
Collect(results, i) ==
    IF results = <<>> THEN TypeOk(<<>>)
    ELSE IF ~results[1].ok THEN Amend(results[1], i)
    ELSE LET rest == Collect(Tail(results), i + 1) IN
         IF rest.ok THEN TypeOk(<<results[1].value>> \o rest.value) ELSE rest

\* TypeInfo::to_json
RECURSIVE ToJson(_, _)
ToJson(d, val) ==
    CASE d.type = "double" ->
           IF DoubleCheck(d, val).ok THEN TypeOk(JFloat(val)) ELSE DoubleCheck(d, val)
      [] d.type = "scaled" ->
           LET v == Round(val, d.scale) IN
           IF v >= d.min /\ v <= d.max THEN TypeOk(JInt(v))
           ELSE BadValue(<<"expected double between">>)
      [] d.type = "int" ->
           IF val >= d.min /\ val <= d.max THEN TypeOk(JInt(val))
           ELSE BadValue(<<"expected integer between">>)
      [] d.type = "blob" ->
           IF Len(val) >= d.minbytes /\ Len(val) <= d.maxbytes
           THEN TypeOk(JString(Base64Encode(val)))
           ELSE BadValue(<<"expected blob with length between">>)
      [] d.type = "string" ->
           IF Len(val) <= d.maxchars THEN TypeOk(JString(val))
           ELSE BadValue(<<"expected string with length <=">>)
      [] d.type = "array" ->
           IF Len(val) >= d.minlen /\ Len(val) <= d.maxlen
           THEN LET v == Collect([i \in 1..Len(val) |-> ToJson(d.members, val[i])], 1) IN
                IF v.ok THEN TypeOk(JArray(v.value)) ELSE v
           ELSE BadValue(<<"expected vector with length between">>)
      [] d.type = "tuple" ->
           LET v == Collect([i \in 1..Len(d.members) |-> ToJson(d.members[i], val[i])], 0) IN
           IF v.ok THEN TypeOk(JArray(v.value)) ELSE v
      [] d.type = "enum" ->
           IF \E k \in DOMAIN d.members : d.members[k] = val THEN TypeOk(JInt(val))
           ELSE BadValue(<<"integer not an enum member">>)

\* TypeInfo::from_json
RECURSIVE FromJson(_, _)
FromJson(d, val) ==
    CASE d.type = "double" ->
           IF val.j \in {"int", "float"}
           THEN IF DoubleCheck(d, val.v).ok THEN TypeOk(val.v) ELSE DoubleCheck(d, val.v)
           ELSE BadValue(<<"expected double">>)
      [] d.type = "scaled" ->
           IF val.j = "int" /\ val.v >= d.min /\ val.v <= d.max
           THEN TypeOk(val.v * d.scale)
           ELSE BadValue(<<"expected integer between">>)
      [] d.type = "int" ->
           IF val.j = "int" /\ val.v >= d.min /\ val.v <= d.max THEN TypeOk(val.v)
           ELSE BadValue(<<"expected integer between">>)
      [] d.type = "blob" ->
           LET v == IF val.j = "string" THEN Base64Decode(val.v) ELSE BadValue(<<>>) IN
           IF v.ok /\ Len(v.value) >= d.minbytes /\ Len(v.value) <= d.maxbytes THEN v
           ELSE BadValue(<<"expected base64 coded string with decoded length between">>)
      [] d.type = "string" ->
           IF val.j = "string" /\ Len(val.v) <= d.maxchars THEN TypeOk(val.v)
           ELSE BadValue(<<"expected string with length <=">>)
      [] d.type = "array" ->
           IF val.j = "array" /\ Len(val.v) >= d.minlen /\ Len(val.v) <= d.maxlen
           THEN Collect([i \in 1..Len(val.v) |-> FromJson(d.members, val.v[i])], 1)
           ELSE BadValue(<<"expected array with length between">>)
      [] d.type = "tuple" ->
           IF val.j = "array" /\ Len(val.v) = Len(d.members)
           THEN Collect([i \in 1..Len(val.v) |-> FromJson(d.members[i], val.v[i])], 0)
           ELSE BadValue(<<"expected array with elements">>)
      [] d.type = "enum" ->
           IF val.j = "string"
           THEN IF val.v \in DOMAIN d.members THEN TypeOk(d.members[val.v])
                ELSE BadValue(<<"string not an enum member">>)
           ELSE IF val.j = "int"
           THEN IF \E k \in DOMAIN d.members : d.members[k] = val.v THEN TypeOk(val.v)
                ELSE BadValue(<<"integer not an enum member">>)
           ELSE BadValue(<<"expected string or integer">>)

\* the descriptors looked at
DoubleT(min, max) == [type |-> "double", min |-> min, max |-> max]
ScaledT == [type |-> "scaled", scale |-> 2, min |-> -1, max |-> 1]
IntT == [type |-> "int", min |-> -1, max |-> 1]
BlobT == [type |-> "blob", minbytes |-> 1, maxbytes |-> 2]
StrT == [type |-> "string", minchars |-> 1, maxchars |-> 2]
ArrayT == [type |-> "array", minlen |-> 1, maxlen |-> 2, members |-> IntT]
TupleT == [type |-> "tuple", members |-> <<IntT, StrT>>]
EnumT == [type |-> "enum", members |-> [off |-> 0, on |-> 1]]

\* a descriptor and a value of its Repr
TypeCase(d, v) == <<d.type, d, v>>
DescrOf(c) == c[2]
ValueOf(c) == c[3]
Nums == (0 - MaxNum)..MaxNum
TypeCases ==
    {TypeCase(DoubleT(min, max), v) :
        min \in {NoBound, Bound(-1)}, max \in {NoBound, Bound(1)}, v \in Nums}
    \cup {TypeCase(ScaledT, v * ScaledT.scale) : v \in Nums}
    \cup {TypeCase(IntT, v) : v \in Nums}
    \cup {TypeCase(BlobT, v) : v \in SeqsUpTo({0, 77, 255}, MaxItems)}
    \cup {TypeCase(StrT, v) : v \in SeqsUpTo({"a", "b"}, MaxItems)}
    \cup {TypeCase(ArrayT, v) : v \in SeqsUpTo({-MaxNum, 0, 1}, MaxItems)}
    \cup {TypeCase(TupleT, <<n, v>>) : n \in {-MaxNum, 0, 1}, v \in SeqsUpTo({"a"}, MaxItems)}
    \cup {TypeCase(EnumT, v) : v \in Nums}

\* the module's value is converted for the wire
ApplyToJson ==
    /\ applied = <<>>
    /\ input \in TypeCases
    /\ applied' = <<"to_json">>
    /\ output' = <<ToJson(DescrOf(input), ValueOf(input))>>
    /\ UNCHANGED <<srvars, pvars, cvars, kvars, bvars, input>>

\* the JSON value is converted back
ApplyFromJson ==
    /\ applied = <<"to_json">>
    /\ output[1].ok
    /\ applied' = <<"to_json", "from_json">>
    /\ output' = Append(output, FromJson(DescrOf(input), output[1].value))
    /\ UNCHANGED <<srvars, pvars, cvars, kvars, bvars, input>>

(* ---------------- configuration (config.rs) ---------------- *)
MaxName == 2      \* characters of a module or group name
MaxModules == 2   \* modules of a configuration

\* a name is a sequence of letters in upper or lower case
Letters == {"m", "M"}
Names == SeqsUpTo(Letters, MaxName) \ {<<>>}

\* str::to_lowercase
ToLowercase(name) == [i \in 1..Len(name) |-> IF name[i] = "M" THEN "m" ELSE name[i]]

\* ServerConfig.modules: each module name with its ModuleConfig.group, an
\* Option that is <<>> or holds one name
Groups == {<<>>} \cup {<<g>> : g \in Names}
Configs ==
    UNION {[ms -> Groups] : ms \in {n \in SUBSET Names : Cardinality(n) \in 1..MaxModules}}

\* load_config, after the file is read: Ok or Err
LoadConfig(modules) ==
    LET lc_groups == {modules[m][1] : m \in {n \in DOMAIN modules : modules[n] # <<>>}}
        \* the second of two names that are equal in lower case fails to be inserted
        taken(name) == \E other \in DOMAIN modules \ {name} :
                          ToLowercase(other) = ToLowercase(name)
    IN
    IF \E name \in DOMAIN modules : ToLowercase(name) \in lc_groups \/ taken(name)
    THEN [ok |-> FALSE, err |-> "is not unique amoung modules and groups"]
    ELSE [ok |-> TRUE, err |-> ""]

\* the server loads its configuration
ApplyLoadConfig ==
    /\ applied = <<>>
    /\ input \in Configs
    /\ applied' = <<"load_config">>
    /\ output' = <<LoadConfig(input)>>
    /\ UNCHANGED <<srvars, pvars, cvars, kvars, bvars, input>>

(* ---------------- LocalClient (client.rs) ---------------- *)
\* LocalClient::new: Duration::from_secs(2)
timeout == 2

LcOps == {"read", "change", "command"}

\* the request a call sends
LcRequest(op) ==
    IF op = "read" THEN "read" ELSE IF op = "change" THEN "change"
    ELSE IF op = "ping" THEN "ping" ELSE "do"

\* the message type a call matches
LcMatching(op) ==
    IF op = "read" THEN "update" ELSE IF op = "change" THEN "changed"
    ELSE IF op = "ping" THEN "pong" ELSE "done"

\* what the server answers to a request: the reply of its type or an error;
\* Dispatcher::run has no arm for Ping (`_ => warn!(...)`) and answers nothing
LcAnswers(req) ==
    IF req = "ping" THEN {}
    ELSE {IF req = "read" THEN "update" ELSE IF req = "change" THEN "changed" ELSE "done",
          "error"}

\* a call that hands the class of a module's error reply to its caller
LcReturn_ErrorClass(op, msg) ==
    IF msg = LcMatching(op) THEN [op |-> op, ok |-> TRUE, class |-> "", got |-> msg]
    ELSE IF msg = "error" THEN [op |-> op, ok |-> FALSE, class |-> "BadValue", got |-> msg]
    ELSE [op |-> op, ok |-> FALSE, class |-> "Protocol", got |-> msg]

\* read / change / command: the match on the message transact returned
LcReturn(op, msg) ==
    IF msg = LcMatching(op) THEN [op |-> op, ok |-> TRUE, class |-> "", got |-> msg]
    ELSE [op |-> op, ok |-> FALSE, class |-> "Protocol", got |-> msg]

\* transact: recv_timeout returned Err
LcTimedOut(op) == [op |-> op, ok |-> FALSE, class |-> "CommunicationFailed", got |-> ""]

\* the state of a LocalClient that has made no call
LcIdle ==
    /\ lc_call = ""
    /\ lc_ncalls = 0
    /\ req_sender = <<>>
    /\ rep_receiver = <<>>
    /\ lc_waited = 0
    /\ lc_result = [op |-> "", ok |-> TRUE, class |-> "", got |-> ""]
    /\ lc_tags = [req |-> <<>>, rep |-> <<>>, got |-> 0]

\* read / change / command up to recv_timeout: the request is sent
LcCall(op) ==
    /\ lc_call = ""
    /\ lc_ncalls < MaxCalls
    /\ lc_call' = op
    /\ lc_ncalls' = lc_ncalls + 1
    /\ req_sender' = Append(req_sender, LcRequest(op))
    /\ lc_tags' = [lc_tags EXCEPT !.req = Append(@, lc_ncalls + 1)]
    /\ lc_waited' = 0
    /\ UNCHANGED <<srvars, pvars, uvars, rep_receiver, lc_result>>

\* the server treats the first request of the client and replies
LcServe ==
    /\ req_sender # <<>>
    /\ \E msg \in LcAnswers(Head(req_sender)) : rep_receiver' = Append(rep_receiver, msg)
    /\ req_sender' = Tail(req_sender)
    /\ lc_tags' = [lc_tags EXCEPT !.req = Tail(@), !.rep = Append(@, Head(lc_tags.req))]
    /\ UNCHANGED <<srvars, pvars, uvars, lc_call, lc_ncalls, lc_waited, lc_result>>

\* the server treats the first request of the client without a reply (the
\* worker panicked, or the reply was dropped by send_back)
LcLose ==
    /\ req_sender # <<>>
    /\ req_sender' = Tail(req_sender)
    /\ lc_tags' = [lc_tags EXCEPT !.req = Tail(@)]
    /\ UNCHANGED <<srvars, pvars, uvars, lc_call, lc_ncalls, rep_receiver, lc_waited, lc_result>>

\* recv_timeout returns the next message of the reply channel
LcRecv ==
    /\ lc_call # ""
    /\ rep_receiver # <<>>
    /\ lc_result' = LcReturn(lc_call, Head(rep_receiver))
    /\ rep_receiver' = Tail(rep_receiver)
    /\ lc_tags' = [lc_tags EXCEPT !.rep = Tail(@), !.got = Head(lc_tags.rep)]
    /\ lc_call' = ""
    /\ UNCHANGED <<srvars, pvars, uvars, lc_ncalls, req_sender, lc_waited>>

\* a second passes while the call is blocked in recv_timeout
LcWait ==
    /\ lc_call # ""
    /\ rep_receiver = <<>>
    /\ lc_waited < timeout
    /\ lc_waited' = lc_waited + 1
    /\ UNCHANGED <<srvars, pvars, uvars, lc_call, lc_ncalls, req_sender, rep_receiver, lc_result,
                   lc_tags>>

\* recv_timeout returns Err after the timeout
LcTimeout ==
    /\ lc_call # ""
    /\ rep_receiver = <<>>
    /\ lc_waited = timeout
    /\ lc_result' = LcTimedOut(lc_call)
    /\ lc_call' = ""
    /\ UNCHANGED <<srvars, pvars, uvars, lc_ncalls, req_sender, rep_receiver, lc_waited, lc_tags>>

\* Dispatcher::run, the arm `_ => warn!("message should not arrive here")`:
\* the Ping of the client is taken from the requests channel and dropped
LcDiscard ==
    /\ req_sender # <<>>
    /\ LcAnswers(Head(req_sender)) = {}
    /\ req_sender' = Tail(req_sender)
    /\ lc_tags' = [lc_tags EXCEPT !.req = Tail(@)]
    /\ UNCHANGED <<srvars, pvars, uvars, lc_call, lc_ncalls, rep_receiver, lc_waited, lc_result>>

\* a second passes while the call is blocked and the dispatcher has treated
\* every request of the client (a running node is faster than the timeout)
LcWaitServed ==
    /\ req_sender = <<>>
    /\ LcWait

(* ---------------- module supervisor (modules/src/lib.rs) ---------------- *)
\* a hook panics while the worker handles a request: the panic unwinds the
\* worker up to catch_unwind, the request gets no reply
ModPanic(m) ==
    /\ mstate[m] = "loop"
    /\ modreq[m] # <<>>
    /\ Head(modreq[m]).msg.type \in {"read", "change", "do"}
    /\ modreq' = [modreq EXCEPT ![m] = Tail(@)]
    /\ mstate' = [mstate EXCEPT ![m] = "dead"]
    /\ UNCHANGED <<hvars, rep, connections, requests, replies, dvars, cache, npoll, xvars, lvars>>

\* a hook panics while the worker polls its parameter
ModPollPanic(m) ==
    /\ mstate[m] = "loop"
    /\ npoll < MaxPoll
    /\ npoll' = npoll + 1
    /\ mstate' = [mstate EXCEPT ![m] = "dead"]
    /\ UNCHANGED <<hvars, rep, connections, requests, replies, modreq, dvars, cache, xvars, lvars>>

\* a supervisor that leaves the pending requests in the channel
ModDrain_Keep(m) ==
    /\ mstate[m] = "dead"
    /\ mstate' = [mstate EXCEPT ![m] = "wait"]
    /\ UNCHANGED <<hvars, rep, connections, requests, replies, modreq, dvars, cache, npoll,
                   xvars, lvars>>

\* inner_run after a panic of the worker: remove all pending requests
ModDrain(m) ==
    /\ mstate[m] = "dead"
    /\ mstate' = [mstate EXCEPT ![m] = "wait"]
    /\ modreq' = [modreq EXCEPT ![m] = <<>>]
    /\ UNCHANGED <<hvars, rep, connections, requests, replies, dvars, cache, npoll, xvars, lvars>>

\* a supervisor that removes the pending requests once more when it restarts
ModRestart_Drain(m) ==
    /\ mstate[m] = "wait"
    /\ modreq[m] # <<>>
    /\ mstate' = [mstate EXCEPT ![m] = "init"]
    /\ cache' = [cache EXCEPT ![m] = DefaultVal]
    /\ restarted' = restarted \cup {m}
    /\ modreq' = [modreq EXCEPT ![m] = <<>>]
    /\ UNCHANGED <<hvars, rep, connections, requests, replies, dvars, npoll, wire, lvars>>

\* inner_run: another request has arrived, the module is created again
ModRestart(m) ==
    /\ mstate[m] = "wait"
    /\ modreq[m] # <<>>
    /\ mstate' = [mstate EXCEPT ![m] = "init"]
    /\ cache' = [cache EXCEPT ![m] = DefaultVal]
    /\ restarted' = restarted \cup {m}
    /\ UNCHANGED <<hvars, rep, connections, requests, replies, modreq, dvars, npoll, wire, lvars>>

\* Handler::sender: the writer thread takes the next message of the reply
\* channel and writes it to the socket
Write(h) ==
    /\ wstate[h] = "run"
    /\ Len(wire[h]) < Len(rep[h])
    /\ wire' = [wire EXCEPT ![h] = Append(@, rep[h][Len(@) + 1])]
    /\ UNCHANGED <<hvars, rep, connections, requests, replies, modreq, dvars,
                   mstate, cache, npoll, restarted, lvars>>

(* ---------------- dispatcher (server.rs) ---------------- *)
\* a send_back that puts the messages in front of the waiting ones
SendBack_Front(hs, r, h, msgs) ==
    IF h \in hs /\ ReceiverAlive(h) THEN [r EXCEPT ![h] = msgs \o @] ELSE r

\* Dispatcher::send_back: the reply channels after sending msgs to h, given the
\* handlers map hs
SendBack(hs, r, h, msgs) ==
    IF h \in hs /\ ReceiverAlive(h) THEN [r EXCEPT ![h] = @ \o msgs] ELSE r

\* send msg to every handler of the set to
Broadcast(hs, r, to, msg) ==
    [h \in Hids |-> IF h \in to /\ h \in hs /\ ReceiverAlive(h)
                    THEN Append(r[h], msg) ELSE r[h]]

\* recv(self.connections)
DispConn ==
    /\ connections # <<>>
    /\ handlers' = handlers \cup {Head(connections)}
    /\ connections' = Tail(connections)
    /\ UNCHANGED <<hvars, rep, requests, replies, modreq, active,
                   global_activate_remaining, quit_done, descriptive, mvars>>

\* a dispatcher whose send to a module waits until the worker has taken the
\* previous request (a channel without buffer)
DispForward_Sync(req) ==
    /\ req.msg.module \in Modules => modreq[req.msg.module] = <<>>
    /\ IF req.msg.module \in Modules
       THEN /\ modreq' = [modreq EXCEPT ![req.msg.module] = Append(@, req)]
            /\ UNCHANGED rep
       ELSE /\ rep' = SendBack(handlers, rep, req.hid, <<ErrMsg("NoSuchModule", req.line, "")>>)
            /\ UNCHANGED modreq
    /\ UNCHANGED <<handlers, active, global_activate_remaining, quit_done>>

\* Do / Change / Read
DispForward(req) ==
    /\ IF req.msg.module \in Modules
       THEN /\ modreq' = [modreq EXCEPT ![req.msg.module] = Append(@, req)]
            /\ UNCHANGED rep
       ELSE /\ rep' = SendBack(handlers, rep, req.hid, <<ErrMsg("NoSuchModule", req.line, "")>>)
            /\ UNCHANGED modreq
    /\ UNCHANGED <<handlers, active, global_activate_remaining, quit_done>>

\* a dispatcher that accepts a global activation while another is in flight
DispActivate_NoGate(req) ==
    LET module == req.msg.module IN
    /\ IF module # ""
       THEN IF module \in Modules
            THEN /\ modreq' = [modreq EXCEPT ![module] = Append(@, req)]
                 /\ UNCHANGED <<rep, global_activate_remaining>>
            ELSE /\ rep' = SendBack(handlers, rep, req.hid,
                                    <<ErrMsg("NoSuchModule", req.line, "")>>)
                 /\ UNCHANGED <<modreq, global_activate_remaining>>
       ELSE /\ modreq' = [m \in Modules |-> Append(modreq[m], req)]
            /\ global_activate_remaining' = Cardinality(Modules)
            /\ UNCHANGED rep
    /\ UNCHANGED <<handlers, active, quit_done>>

\* Activate
DispActivate(req) ==
    LET module == req.msg.module IN
    /\ IF module # ""
       THEN IF module \in Modules
            THEN /\ modreq' = [modreq EXCEPT ![module] = Append(@, req)]
                 /\ UNCHANGED <<rep, global_activate_remaining>>
            ELSE /\ rep' = SendBack(handlers, rep, req.hid,
                                    <<ErrMsg("NoSuchModule", req.line, "")>>)
                 /\ UNCHANGED <<modreq, global_activate_remaining>>
       ELSE IF global_activate_remaining > 0
            THEN /\ rep' = SendBack(handlers, rep, req.hid,
                                    <<ErrMsg("ProtocolError", req.line, "already activating")>>)
                 /\ UNCHANGED <<modreq, global_activate_remaining>>
            ELSE /\ modreq' = [m \in Modules |-> Append(modreq[m], req)]
                 /\ global_activate_remaining' = Cardinality(Modules)
                 /\ UNCHANGED rep
    /\ UNCHANGED <<handlers, active, quit_done>>

\* Deactivate
DispDeactivate(req) ==
    LET module == req.msg.module IN
    /\ IF module # "" /\ module \notin Modules
       THEN /\ rep' = SendBack(handlers, rep, req.hid, <<ErrMsg("NoSuchModule", req.line, "")>>)
            /\ UNCHANGED active
       ELSE /\ active' = [m \in Modules |->
                            IF module = "" \/ m = module THEN active[m] \ {req.hid}
                            ELSE active[m]]
            /\ rep' = SendBack(handlers, rep, req.hid, <<Inactive(module)>>)
    /\ UNCHANGED <<handlers, modreq, global_activate_remaining, quit_done>>

\* Describe
DispDescribe(req) ==
    /\ rep' = SendBack(handlers, rep, req.hid, <<Describing(".", descriptive)>>)
    /\ UNCHANGED <<handlers, active, modreq, global_activate_remaining, quit_done>>

\* Quit
DispQuit(req) ==
    /\ handlers' = handlers \ {req.hid}
    /\ active' = [m \in Modules |-> active[m] \ {req.hid}]
    /\ quit_done' = quit_done \cup {req.hid}
    /\ UNCHANGED <<rep, modreq, global_activate_remaining>>

\* recv(self.requests)
DispReq ==
    /\ requests # <<>>
    /\ requests' = Tail(requests)
    /\ LET req == Head(requests) IN
       CASE req.msg.type \in {"do", "change", "read"} -> DispForward(req)
         [] req.msg.type = "activate" -> DispActivate(req)
         [] req.msg.type = "deactivate" -> DispDeactivate(req)
         [] req.msg.type = "describe" -> DispDescribe(req)
         [] req.msg.type = "<eof>" -> DispQuit(req)
    /\ UNCHANGED <<hvars, connections, replies, descriptive, mvars>>

\* serde_json's item[0]: Null unless item is an array
Item0(item) == IF item.kind = "array" THEN item.of ELSE "null"

\* (None, Describing): replace the entry found by item[0] == id, else push
DispDescribing(msg) ==
    LET found == {i \in 1..Len(descriptive) : Item0(descriptive[i]) = msg.module} IN
    /\ descriptive' =
         IF found # {}
         THEN LET i == CHOOSE j \in found : \A k \in found : j <= k IN
              [descriptive EXCEPT ![i] = msg.data[1]]
         ELSE Append(descriptive, msg.data[1])
    /\ UNCHANGED <<rep, handlers, active, global_activate_remaining>>

\* a dispatcher that sends an event update to the subscribers of every module
Subscribers_Any(act, module) == UNION {act[m] : m \in Modules}

\* &self.active[module]
Subscribers(act, module) == act[module]

\* (None, Update): event update, sent to the subscribers of the module
DispUpdate(msg) ==
    /\ rep' = Broadcast(handlers, rep, Subscribers(active, msg.module), msg)
    /\ UNCHANGED <<handlers, active, global_activate_remaining, descriptive>>

\* a dispatcher that reports the global activation as complete one reply early
GlobalDone_Early(remaining) == remaining <= 1

\* if global_activate_remaining == 0
GlobalDone(remaining) == remaining = 0

\* (Some(hid), InitUpdates)
DispInitUpdates(hid, msg) ==
    LET module == msg.module IN
    /\ IF module # ""
       THEN /\ rep' = SendBack(handlers, rep, hid, msg.data \o <<Active(module)>>)
            /\ active' = [active EXCEPT ![module] = @ \cup {hid}]
            /\ UNCHANGED global_activate_remaining
       ELSE /\ global_activate_remaining' = global_activate_remaining - 1
            /\ IF GlobalDone(global_activate_remaining - 1)
               THEN /\ rep' = SendBack(handlers, rep, hid, msg.data \o <<Active("")>>)
                    /\ active' = [m \in Modules |-> active[m] \cup {hid}]
               ELSE /\ rep' = SendBack(handlers, rep, hid, msg.data)
                    /\ UNCHANGED active
    /\ UNCHANGED <<handlers, descriptive>>

\* (Some(hid), other reply)
DispReply(hid, msg) ==
    /\ rep' = SendBack(handlers, rep, hid, <<msg>>)
    /\ UNCHANGED <<handlers, active, global_activate_remaining, descriptive>>

\* recv(self.replies)
DispRep ==
    /\ replies # <<>>
    /\ replies' = Tail(replies)
    /\ LET r == Head(replies) IN
       IF r.hid = None
       THEN CASE r.msg.type = "describing" -> DispDescribing(r.msg)
              [] r.msg.type = "update" -> DispUpdate(r.msg)
       ELSE IF r.msg.type = "<updates>"
            THEN DispInitUpdates(r.hid, r.msg)
            ELSE DispReply(r.hid, r.msg)
    /\ UNCHANGED <<hvars, connections, requests, modreq, quit_done, mvars>>

(* ---------------- the system ---------------- *)
\* the detailed worker is not looked at
ParIdle ==
    /\ decl = [swonly |-> FALSE, readonly |-> FALSE, default |-> <<>>, polling |-> 1]
    /\ cfg = <<>>
    /\ pstate = "new"
    /\ param = [data |-> DefaultVal, time |-> 0]
    /\ now = 0
    /\ calls = <<>>
    /\ result = [op |-> "", arg |-> 0, ok |-> TRUE, val |-> 0, time |-> 0, class |-> ""]
    /\ updates = <<>>
    /\ status = "Idle"
    /\ poll_normal_counter = 0
    /\ poll_busy_counter = 0
    /\ poll_tickers = StartTickers

\* The server at start: Server::start has spawned the workers, the dispatcher
\* and the listener; no worker has initialized its parameters yet
InitBoot ==
    /\ next_hid = 1
    /\ hstate = [h \in Hids |-> "none"]
    /\ wstate = [h \in Hids |-> "none"]
    /\ rep = [h \in Hids |-> <<>>]
    /\ quit_sent = {}
    /\ nlines = 0
    /\ sent = [h \in Hids |-> <<>>]
    /\ connections = <<>>
    /\ requests = <<>>
    /\ replies = <<>>
    /\ modreq = [m \in Modules |-> <<>>]
    /\ handlers = {}
    /\ active = [m \in Modules |-> {}]
    /\ global_activate_remaining = 0
    /\ quit_done = {}
    /\ descriptive = <<>>
    /\ mstate = [m \in Modules |-> "init"]
    /\ cache = [m \in Modules |-> DefaultVal]
    /\ npoll = 0
    /\ restarted = {}
    /\ wire = [h \in Hids |-> <<>>]
    /\ ParIdle
    /\ LcIdle
    /\ UnitsIdle

\* The server once every worker has entered its event loop (the hardware
\* delivered DefaultVal) and the dispatcher has cached their descriptions,
\* before the first client connects
Init ==
    /\ next_hid = 1
    /\ hstate = [h \in Hids |-> "none"]
    /\ wstate = [h \in Hids |-> "none"]
    /\ rep = [h \in Hids |-> <<>>]
    /\ quit_sent = {}
    /\ nlines = 0
    /\ sent = [h \in Hids |-> <<>>]
    /\ connections = <<>>
    /\ requests = <<>>
    /\ replies = <<>>
    /\ modreq = [m \in Modules |-> <<>>]
    /\ handlers = {}
    /\ active = [m \in Modules |-> {}]
    /\ global_activate_remaining = 0
    /\ quit_done = {}
    /\ descriptive = <<Structure("m1"), Structure("m2")>>
    /\ mstate = [m \in Modules |-> "loop"]
    /\ cache = [m \in Modules |-> DefaultVal]
    /\ npoll = 0
    /\ restarted = {}
    /\ wire = [h \in Hids |-> <<>>]
    /\ ParIdle
    /\ LcIdle
    /\ UnitsIdle

\* clients, handlers, dispatcher and the request arm of the workers
Next ==
    \/ Accept
    \/ \E h \in Hids, line \in ClientLines : HandleLine(h, line)
    \/ \E h \in Hids : HandleClose(h)
    \/ \E h \in Hids : WriterFail(h)
    \/ DispConn
    \/ DispReq
    \/ DispRep
    \/ \E m \in Modules : ModHandle(m)

Spec == Init /\ [][Next]_vars

\* the same with the start of the workers, their poll tickers and the supervisor
NextBoot ==
    \/ Next
    \/ \E m \in Modules : ModStart(m)
    \/ \E m \in Modules : ModPoll(m)
    \/ \E m \in Modules : ModDrain(m)
    \/ \E m \in Modules : ModRestart(m)

SpecBoot == InitBoot /\ [][NextBoot]_vars

\* the server variables as in Init
ServerIdle ==
    /\ next_hid = 1
    /\ hstate = [h \in Hids |-> "none"]
    /\ wstate = [h \in Hids |-> "none"]
    /\ rep = [h \in Hids |-> <<>>]
    /\ quit_sent = {}
    /\ nlines = 0
    /\ sent = [h \in Hids |-> <<>>]
    /\ connections = <<>>
    /\ requests = <<>>
    /\ replies = <<>>
    /\ modreq = [m \in Modules |-> <<>>]
    /\ handlers = {}
    /\ active = [m \in Modules |-> {}]
    /\ global_activate_remaining = 0
    /\ quit_done = {}
    /\ descriptive = <<Structure("m1"), Structure("m2")>>
    /\ mstate = [m \in Modules |-> "loop"]
    /\ cache = [m \in Modules |-> DefaultVal]
    /\ npoll = 0
    /\ restarted = {}
    /\ wire = [h \in Hids |-> <<>>]

\* one worker with one parameter of any declaration and any config override,
\* created and not yet initialized
InitPar ==
    /\ ServerIdle
    /\ decl \in Decls
    /\ cfg \in {<<>>} \cup {<<v>> : v \in Values}
    /\ pstate = "new"
    /\ param = [data |-> DefaultVal, time |-> 0]
    /\ now = 0
    /\ calls = <<>>
    /\ result = [op |-> "", arg |-> 0, ok |-> TRUE, val |-> 0, time |-> 0, class |-> ""]
    /\ updates = <<>>
    /\ status = "Idle"
    /\ poll_normal_counter = 0
    /\ poll_busy_counter = 0
    /\ poll_tickers = StartTickers
    /\ LcIdle
    /\ UnitsIdle

\* the operations of the worker on the parameter
NextPar ==
    \/ DoInit
    \/ DoRestart
    \/ DoRead
    \/ DoChange
    \/ DoCommand
    \/ Tick

\* the worker polls the parameter
NextPoll ==
    \/ DoInit
    \/ DoRestart
    \/ DoRead
    \/ PollNormal
    \/ PollBusy
    \/ SetStatus
    \/ DoPollinterval
    \/ Tick

SpecPoll == InitPar /\ [][NextPoll]_vars

\* a LocalClient and the server that answers it
NextLc ==
    \/ \E op \in LcOps : LcCall(op)
    \/ LcServe
    \/ LcLose
    \/ LcRecv
    \/ LcWait
    \/ LcTimeout

SpecLc == Init /\ [][NextLc]_vars

\* a LocalClient that also pings, and a running node that treats every
\* request within the timeout
NextPing ==
    \/ \E op \in LcOps \cup {"ping"} : LcCall(op)
    \/ LcServe
    \/ LcDiscard
    \/ LcRecv
    \/ LcWaitServed
    \/ LcTimeout

SpecPing == Init /\ [][NextPing]_vars

\* a communicator whose device sends any stream of bytes
InitComm ==
    /\ ServerIdle
    /\ ParIdle
    /\ LcIdle
    /\ stream = <<>>
    /\ buf = <<>>
    /\ parsed = <<>>
    /\ hdone = FALSE
    /\ input = <<>>
    /\ applied = <<>>
    /\ output = <<>>
    /\ device \in StreamsOf(MaxDevice)
    /\ buffer = <<>>
    /\ waiter = "idle"
    /\ rl_waited = 0
    /\ rl_ncalls = 0
    /\ rl_result = [kind |-> "", line |-> <<>>]
    /\ line_seen = FALSE

NextComm ==
    \/ CommThreadRead
    \/ Readline
    \/ Communicate
    \/ CommTick
    \/ WaitEolTimedOut
    \/ WaitEolNotified

SpecComm == InitComm /\ [][NextComm]_vars

SpecPar == InitPar /\ [][NextPar]_vars

\* lines of the clients of the supervised server
SupLines ==
    {Line(Read(m, Param)) : m \in Modules}
    \cup {Line(Change("m1", Param, MaxVal)), Line(Do("m1", Command))}
    \cup {Line(Activate("m2")), Line(Deactivate("m2")), Line(Describe)}

\* the server with workers whose hooks can panic, and their supervisors
NextSup ==
    \/ Accept
    \/ \E h \in Hids, line \in SupLines : HandleLine(h, line)
    \/ DispConn
    \/ DispReq
    \/ DispRep
    \/ \E m \in Modules : ModHandle(m)
    \/ \E m \in Modules : ModPoll(m)
    \/ \E m \in Modules : ModPanic(m)
    \/ \E m \in Modules : ModDrain(m)
    \/ \E m \in Modules : ModRestart(m)
    \/ \E m \in Modules : ModStart(m)

SpecSup == Init /\ [][NextSup]_vars

\* clients that read, workers whose hooks can panic and their supervisors;
\* every thread of the server keeps running: the dispatcher takes what is
\* ready, a worker handles its requests, a supervisor looks at the request
\* channel every 100 ms
NextRestart ==
    \/ Accept
    \/ \E h \in Hids, m \in Modules : HandleLine(h, Line(Read(m, Param)))
    \/ DispConn
    \/ DispReq
    \/ DispRep
    \/ \E m \in Modules : ModHandle(m)
    \/ \E m \in Modules : ModPanic(m)
    \/ \E m \in Modules : ModDrain(m)
    \/ \E m \in Modules : ModRestart(m)
    \/ \E m \in Modules : ModStart(m)

SpecSupFair ==
    /\ Init /\ [][NextRestart]_vars
    /\ WF_vars(DispConn) /\ WF_vars(DispReq) /\ WF_vars(DispRep)
    /\ \A m \in Modules :
          /\ WF_vars(ModHandle(m)) /\ WF_vars(ModDrain(m))
          /\ WF_vars(ModRestart(m)) /\ WF_vars(ModStart(m))

\* clients that read and subscribe to all modules, workers whose hooks can
\* panic and their supervisors; every thread of the server keeps running
NextAct ==
    \/ Accept
    \/ \E h \in Hids : HandleLine(h, Line(Read("m1", Param)))
    \/ \E h \in Hids : HandleLine(h, Line(Activate("")))
    \/ DispConn
    \/ DispReq
    \/ DispRep
    \/ \E m \in Modules : ModHandle(m)
    \/ \E m \in Modules : ModPanic(m)
    \/ \E m \in Modules : ModDrain(m)
    \/ \E m \in Modules : ModRestart(m)
    \/ \E m \in Modules : ModStart(m)

SpecAct == Init /\ [][NextAct]_vars

SpecActFair ==
    /\ Init /\ [][NextAct]_vars
    /\ WF_vars(DispConn) /\ WF_vars(DispReq) /\ WF_vars(DispRep)
    /\ \A m \in Modules :
          /\ WF_vars(ModHandle(m)) /\ WF_vars(ModDrain(m))
          /\ WF_vars(ModRestart(m)) /\ WF_vars(ModStart(m))

\* lines of the clients of the server whose workers are created again
LifeLines ==
    {Line(Read("m2", Param)), Line(Activate("m2")), Line(Describe)}

\* the server with workers whose hooks can panic, on a request or on a poll,
\* and their supervisors, while clients read, subscribe and ask for the
\* description
NextLife ==
    \/ Accept
    \/ \E h \in Hids, line \in LifeLines : HandleLine(h, line)
    \/ DispConn
    \/ DispReq
    \/ DispRep
    \/ \E m \in Modules : ModStart(m)
    \/ \E m \in Modules : ModHandle(m)
    \/ \E m \in Modules : ModPanic(m)
    \/ \E m \in Modules : ModPollPanic(m)
    \/ \E m \in Modules : ModDrain(m)
    \/ \E m \in Modules : ModRestart(m)

SpecLife == Init /\ [][NextLife]_vars

\* the server at its start: the workers initialize their parameters while
\* clients connect and ask for the description
NextStart ==
    \/ Accept
    \/ \E h \in Hids : HandleLine(h, Line(Describe))
    \/ DispConn
    \/ DispReq
    \/ DispRep
    \/ \E m \in Modules : ModStart(m)

SpecStart == InitBoot /\ [][NextStart]_vars

\* lines of the clients whose replies are followed to the socket
WireLines ==
    {Line(Read("m1", Param)), Line(Change("m1", Param, MaxVal)), Line(Do("m1", Command)),
     Line(Activate("m1")), Line(Ping)}

\* clients, handlers with their writer threads, dispatcher and workers
NextWire ==
    \/ Accept
    \/ \E h \in Hids, line \in WireLines : HandleLine(h, line)
    \/ \E h \in Hids : Write(h)
    \/ DispConn
    \/ DispReq
    \/ DispRep
    \/ \E m \in Modules : ModHandle(m)

SpecWire == Init /\ [][NextWire]_vars

\* a reader thread and a client that sends any stream of bytes
InitHandle ==
    /\ ServerIdle
    /\ ParIdle
    /\ LcIdle
    /\ CommIdle
    /\ stream \in Streams
    /\ buf = <<>>
    /\ parsed = <<>>
    /\ hdone = FALSE
    /\ input = <<>>
    /\ applied = <<>>
    /\ output = <<>>

NextHandle ==
    \/ HandleRead
    \/ HandleEof

SpecHandle == InitHandle /\ [][NextHandle]_vars

\* a message is formatted and the text is parsed
InitProto ==
    /\ ServerIdle
    /\ ParIdle
    /\ LcIdle
    /\ CommIdle
    /\ stream = <<>>
    /\ buf = <<>>
    /\ parsed = <<>>
    /\ hdone = FALSE
    /\ input \in OutwardMsgs
    /\ applied = <<>>
    /\ output = <<>>

NextProto ==
    \/ ApplyDisplay
    \/ ApplyParse

SpecProto == InitProto /\ [][NextProto]_vars

\* a value is converted to JSON and back
InitTypes ==
    /\ ServerIdle
    /\ ParIdle
    /\ LcIdle
    /\ CommIdle
    /\ stream = <<>>
    /\ buf = <<>>
    /\ parsed = <<>>
    /\ hdone = FALSE
    /\ input \in TypeCases
    /\ applied = <<>>
    /\ output = <<>>

NextTypes ==
    \/ ApplyToJson
    \/ ApplyFromJson

SpecTypes == InitTypes /\ [][NextTypes]_vars

\* a configuration is loaded
InitConfig ==
    /\ ServerIdle
    /\ ParIdle
    /\ LcIdle
    /\ CommIdle
    /\ stream = <<>>
    /\ buf = <<>>
    /\ parsed = <<>>
    /\ hdone = FALSE
    /\ input \in Configs
    /\ applied = <<>>
    /\ output = <<>>

NextConfig == ApplyLoadConfig

SpecConfig == InitConfig /\ [][NextConfig]_vars

(* ---------------- properties ---------------- *)
\* the parameters of a module, in the order of activate_updates
Params == <<Param>>

IsUpdate(msg, m, p) == msg.type = "update" /\ msg.module = m /\ msg.acc = p
IsActive(msg, m) == msg.type = "active" /\ msg.module = m

\* the messages before position i of a reply channel are a complete batch of
\* updates of module m: one per parameter
BatchBefore(r, i, m) ==
    /\ i > Len(Params)
    /\ \A k \in 1..Len(Params) : IsUpdate(r[i - Len(Params) + k - 1], m, Params[k])

\* C1: single-module activation: on the reply channel of every handler, every
\* `active m` is directly preceded by one `update m:<param>` for every parameter
\* of m, so that the answer to `activate m` is the full batch, then `active m`.
C1_ActivateOrdering ==
    \A h \in Hids : \A i \in 1..Len(rep[h]) : \A m \in Modules :
        IsActive(rep[h][i], m) => BatchBefore(rep[h], i, m)

\* C2: every HandlerId in a subscription set has a reply channel in the
\* dispatcher's handlers map.
C2_SubscribersRegistered ==
    \A m \in Modules : active[m] \subseteq handlers

\* the dispatcher takes the request Request from its request channel in this step
Processing == requests # <<>> /\ requests' = Tail(requests)
Request == Head(requests)

\* the reply channels after msg has been sent to the connection h, whose
\* channel ignores the message once its receiver is gone (the client has
\* disconnected)
Answered(h, msg) ==
    IF ReceiverAlive(h) THEN [rep EXCEPT ![h] = Append(@, msg)] ELSE rep

\* requests of a global activation that a module has not answered yet, and
\* answers the dispatcher has not processed yet
PendingGlobal ==
    UNION {{<<m, i>> : i \in {j \in 1..Len(modreq[m]) : modreq[m][j].msg = Activate("")}}
              : m \in Modules}
    \cup {<<"", i>> : i \in {j \in 1..Len(replies) :
                                replies[j].hid # None /\ replies[j].msg.type = "<updates>"
                                /\ replies[j].msg.module = ""}}
PendingGlobalHids ==
    {modreq[x[1]][x[2]].hid : x \in {y \in PendingGlobal : y[1] # ""}}
    \cup {replies[x[2]].hid : x \in {y \in PendingGlobal : y[1] = ""}}

\* C3: at most one global activation is in flight: the counter is the number
\* of outstanding InitUpdates replies, which all belong to one handler; while
\* it is positive a further global `activate` is answered with ProtocolError
\* "already activating" and forwarded to no module; when it is zero, a global
\* `activate` is accepted and forwarded to every module.
C3_GlobalExclusive ==
    /\ [](/\ global_activate_remaining = Cardinality(PendingGlobal)
          /\ Cardinality(PendingGlobalHids) <= 1)
    /\ [][(Processing /\ Request.msg = Activate("")) =>
               LET req == Request IN
               IF global_activate_remaining > 0
               THEN /\ rep' = Answered(req.hid, ErrMsg("ProtocolError", req.line,
                                                       "already activating"))
                    /\ modreq' = modreq
                    /\ global_activate_remaining' = global_activate_remaining
               ELSE /\ modreq' = [m \in Modules |-> Append(modreq[m], req)]
                    /\ global_activate_remaining' = Cardinality(Modules)]_vars

\* the dispatcher takes the reply Reply from the reply channel of the modules
\* in this step
Replying == replies # <<>> /\ replies' = Tail(replies)
Reply == Head(replies)

\* the messages a step has placed on the reply channel of h
Placed(h) == SubSeq(rep'[h], Len(rep[h]) + 1, Len(rep'[h]))
Contains(s, msg) == \E i \in 1..Len(s) : s[i] = msg

SentLine(h, line) == Contains(sent[h], line)

\* the module has built the InitUpdates snapshot for `activate m` of h and the
\* dispatcher has processed it
SnapshotDone(h, m) ==
    /\ SentLine(h, Line(Activate(m)))
    /\ ~\E i \in 1..Len(requests) : requests[i].hid = h /\ requests[i].msg = Activate(m)
    /\ ~\E i \in 1..Len(modreq[m]) : modreq[m][i].hid = h /\ modreq[m][i].msg = Activate(m)
    /\ ~\E i \in 1..Len(replies) :
           /\ replies[i].hid = h
           /\ replies[i].msg.type = "<updates>" /\ replies[i].msg.module = m

\* h stays connected and has not deactivated m
Stays(h, m) ==
    /\ hstate[h] = "run" /\ ReceiverAlive(h)
    /\ ~SentLine(h, Line(Deactivate(m))) /\ ~SentLine(h, Line(Deactivate("")))

\* a broadcast update of m is still on its way to the dispatcher
UpdatePending(m) ==
    \E i \in 1..Len(replies) :
        /\ replies[i].hid = None
        /\ replies[i].msg.type = "update" /\ replies[i].msg.module = m

\* the values of the parameter of m that h has received
Received(h, m) == SelectSeq(rep[h], LAMBDA msg : IsUpdate(msg, m, Param))

\* C5: single-module activation misses no update: every broadcast Update of m
\* that follows the InitUpdates snapshot built for h is forwarded to h while h
\* stays connected and does not deactivate, and once no update of m is on its
\* way the last value h has received is the value in m's cache.
C5_NoUpdateMissed ==
    /\ [][\A h \in Hids : \A m \in Modules :
            (/\ Replying
             /\ Reply.hid = None
             /\ Reply.msg.type = "update" /\ Reply.msg.module = m
             /\ SnapshotDone(h, m) /\ Stays(h, m)) => Placed(h) = <<Reply.msg>>]_vars
    /\ [](\A h \in Hids : \A m \in Modules :
            (SnapshotDone(h, m) /\ Stays(h, m) /\ ~UpdatePending(m)) =>
                /\ Received(h, m) # <<>>
                /\ Received(h, m)[Len(Received(h, m))].data = <<cache[m]>>)

\* h has never activated m, neither by `activate m` nor by a global activate
NeverActivated(h, m) ==
    ~SentLine(h, Line(Activate(m))) /\ ~SentLine(h, Line(Activate("")))

\* C6: a handler that has never activated m never receives any `update m:*`.
C6_UnsubscribedSilence ==
    \A h \in Hids : \A m \in Modules :
        NeverActivated(h, m) =>
            ~\E i \in 1..Len(rep[h]) : rep[h][i].type = "update" /\ rep[h][i].module = m

\* C6, amended: the only `update m:*` messages a handler that has never
\* activated m receives are the replies to its own `read m:*` requests: each
\* is placed on its channel by the dispatcher step that passes on the module's
\* reply addressed to it, never by an InitUpdates batch or a broadcast.
C6_OnlyOwnReadReplies ==
    [][\A h \in Hids : \A m \in Modules :
          (NeverActivated(h, m)
           /\ \E i \in 1..Len(Placed(h)) :
                 Placed(h)[i].type = "update" /\ Placed(h)[i].module = m) =>
              /\ Replying
              /\ Reply.hid = h
              /\ Reply.msg.type = "update"
              /\ Placed(h) = <<Reply.msg>>
              /\ \E i \in 1..Len(sent[h]) :
                    sent[h][i][1] = "read" /\ sent[h][i][2] = m]_vars

\* a registered handler has never activated m while another handler has
\* received the updates of its activation of m and is subscribed
C6_Witness ==
    \E h, h2 \in Hids : \E m \in Modules :
        /\ h # h2 /\ h \in handlers /\ ReceiverAlive(h) /\ NeverActivated(h, m)
        /\ h2 \in active[m]
        /\ Received(h2, m) # <<>> /\ Contains(rep[h2], Active(m))

\* C7: once the dispatcher has processed (hid, Quit), hid has no reply channel
\* in the dispatcher and is in no subscription set, in every later state.
C7_QuitIsFinal ==
    \A h \in quit_done : h \notin handlers /\ \A m \in Modules : h \notin active[m]

\* C8: every reader thread that has stopped has sent (hid, Quit) to the
\* dispatcher.
C8_ReaderStopSendsQuit ==
    \A h \in Hids : hstate[h] \in {"quit", "panic"} => h \in quit_sent

\* C9: a read, change, do, activate or deactivate request naming a module that
\* is not configured is answered with one `error NoSuchModule` quoting the
\* originating line; nothing is forwarded to a module, and the subscription
\* sets and the global-activation counter stay as they are.
C9_NoSuchModule ==
    [][(/\ Processing
        /\ Request.msg.type \in {"read", "change", "do", "activate", "deactivate"}
        /\ Request.msg.module \notin Modules \cup {""}) =>
           /\ rep' = Answered(Request.hid, ErrMsg("NoSuchModule", Request.line, ""))
           /\ modreq' = modreq
           /\ active' = active
           /\ global_activate_remaining' = global_activate_remaining]_vars

\* C10: `deactivate m` of hid for a configured m removes hid from the
\* subscription set of m only, `deactivate` with empty module removes hid from
\* every set; every other membership stays, and one `inactive` with the same
\* module field is sent to hid.
C10_DeactivateFrame ==
    [][(/\ Processing
        /\ Request.msg.type = "deactivate"
        /\ Request.msg.module \in Modules \cup {""}) =>
           /\ \A m \in Modules :
                 active'[m] = IF Request.msg.module \in {m, ""}
                              THEN active[m] \ {Request.hid} ELSE active[m]
           /\ rep' = Answered(Request.hid, Inactive(Request.msg.module))]_vars

\* the answers to `read m:value` requests that h has received
Answers(h, m) ==
    SelectSeq(rep[h], LAMBDA x : \/ x.type = "update" /\ x.module = m
                                 \/ x.type = "error" /\ x.data = Line(Read(m, Param)))

\* a registered client's `read m:value` is the next request of module m, whose
\* worker has panicked and whose supervisor waits for a request
ReadWaiting(h, m) ==
    /\ mstate[m] = "wait"
    /\ modreq[m] # <<>>
    /\ Head(modreq[m]) = IncomingMsg(h, Line(Read(m, Param)), Read(m, Param))
    /\ h \in handlers /\ ReceiverAlive(h)

\* C11: after a panic of the worker of m the supervisor restarts the module,
\* and the `read m:value` of a client that is already registered is answered
\* on the client's old reply channel (unless the worker panics again first);
\* the answer of the restarted worker is `update m:value` with the value the
\* hardware delivered, or an error quoting the line when the hook fails.
C11_RestartAnswers ==
    /\ \A h \in Hids : \A m \in Modules : \A n \in 0..MaxLines :
          (ReadWaiting(h, m) /\ Len(Answers(h, m)) = n)
              ~> (Len(Answers(h, m)) > n \/ mstate[m] = "dead")
    /\ [][\A m \in restarted :
            (/\ mstate[m] = "loop" /\ mstate'[m] = "loop"
             /\ modreq[m] # <<>> /\ modreq'[m] = Tail(modreq[m])
             /\ Head(modreq[m]).msg = Read(m, Param)) =>
                LET req == Head(modreq[m])
                    ans == replies'[Len(replies')] IN
                /\ Len(replies') > Len(replies)
                /\ ans.hid = req.hid
                /\ \/ ans.msg = Update(m, Param, cache'[m]) /\ Valid(cache'[m])
                   \/ ans.msg.type = "error" /\ ans.msg.data = req.line]_vars

\* a client has received `update m:value` from a module that was restarted
C11_Witness ==
    \E h \in Hids : \E m \in restarted :
        /\ mstate[m] = "loop"
        /\ \E i \in 1..Len(rep[h]) : IsUpdate(rep[h][i], m, Param)

\* the worker of a module is not serving: it is dead, its supervisor waits or
\* it is being created again
Down(m) == mstate[m] \in {"dead", "wait", "init"}

\* C12: module isolation: whatever the state of the workers (dead, waiting
\* for restart, or not taking their requests), the dispatcher can always take
\* its next request and its next reply (no send to a module blocks) and every
\* worker in its event loop can take its next request; while a worker is
\* down, requests for the modules are still forwarded to their channels,
\* `describe` and `deactivate` are answered, and the broadcast updates and
\* replies of the other modules are passed on to the clients.
C12_Isolation ==
    /\ [](/\ requests # <<>> => ENABLED DispReq
          /\ replies # <<>> => ENABLED DispRep
          /\ \A m \in Modules :
                (mstate[m] = "loop" /\ modreq[m] # <<>>) => ENABLED ModHandle(m))
    /\ [][(Processing /\ \E m \in Modules : Down(m)) =>
            LET req == Request IN
            CASE req.msg.type \in {"read", "change", "do"} /\ req.msg.module \in Modules ->
                   modreq' = [modreq EXCEPT ![req.msg.module] = Append(@, req)]
              [] req.msg.type = "describe" ->
                   rep' = SendBack(handlers, rep, req.hid, <<Describing(".", descriptive)>>)
              [] req.msg.type = "deactivate" /\ req.msg.module \in Modules ->
                   /\ rep' = SendBack(handlers, rep, req.hid, <<Inactive(req.msg.module)>>)
                   /\ active' = [active EXCEPT ![req.msg.module] = @ \ {req.hid}]
              [] OTHER -> TRUE]_vars
    /\ [][(Replying /\ \E m \in Modules : Down(m)) =>
            IF Reply.hid = None
            THEN Reply.msg.type = "update" =>
                   rep' = Broadcast(handlers, rep, active[Reply.msg.module], Reply.msg)
            ELSE Reply.msg.type # "<updates>" =>
                   rep' = SendBack(handlers, rep, Reply.hid, <<Reply.msg>>)]_vars

\* while the worker of one module is down, a client has the answer of
\* another module
C12_Witness ==
    \E m1, m2 \in Modules : \E h \in Hids :
        /\ m1 # m2 /\ mstate[m1] \in {"dead", "wait"}
        /\ \E i \in 1..Len(rep[h]) : IsUpdate(rep[h][i], m2, Param)

\* a hook of the request fails with the outcomes res (read hook) and werr
\* (write hook, do hook)
HookFails(req, res, werr) ==
    \/ req.msg.type = "read" /\ req.msg.acc = Param /\ res = HookErr
    \/ req.msg.type = "change" /\ req.msg.acc = Param /\ Valid(req.msg.data[1])
          /\ (werr \/ res = HookErr)
    \/ req.msg.type = "do" /\ req.msg.acc = Command /\ werr

\* C13: when a read, write or do hook returns an error, the worker answers
\* the request with one error reply that quotes the request line and sends
\* nothing else; it stays in its event loop, where it can take the next
\* request and the next poll tick.
C13_HookError ==
    /\ [](\A m \in Modules :
            (mstate[m] = "loop" /\ modreq[m] # <<>>) =>
                /\ ENABLED ModHandle(m)
                /\ \A res \in ReadResults, werr \in BOOLEAN :
                      HookFails(Head(modreq[m]), res, werr) =>
                          LET r == ModReply(m, Head(modreq[m]), cache[m], res, werr) IN
                          /\ r.rep.type = "error"
                          /\ r.rep.module \in {"CommunicationFailed", "CommandFailed"}
                          /\ r.rep.data = Head(modreq[m]).line
                          /\ r.bcast = <<>>)
    /\ [](\A m \in Modules : (mstate[m] = "loop" /\ npoll < MaxPoll) => ENABLED ModPoll(m))
    /\ [][\A m \in Modules :
            (/\ modreq[m] # <<>> /\ modreq'[m] = Tail(modreq[m])
             /\ Len(replies') > Len(replies)
             /\ replies'[Len(replies')].msg.type = "error") =>
                /\ replies' = Append(replies, ModRep(Head(modreq[m]).hid,
                                                     replies'[Len(replies')].msg))
                /\ replies'[Len(replies')].msg.data = Head(modreq[m]).line
                /\ mstate'[m] = "loop"]_vars

\* a client has the error reply for a failed hook and the worker is in its loop
C13_Witness ==
    \E h \in Hids : \E i \in 1..Len(rep[h]) :
        /\ rep[h][i].type = "error"
        /\ rep[h][i].module \in {"CommunicationFailed", "CommandFailed"}
        /\ mstate[rep[h][i].data[2]] = "loop"

(* ---------------- the parameter in detail ---------------- *)
\* a step of the initialized worker that handles a request
Handling == pstate = "ready" /\ pstate' = "ready" /\ now' = now

\* an operation that left no trace: no hook, the cache as it was, no update
Untouched == calls' = <<>> /\ param' = param /\ updates' = <<>>

\* C14: validation precedes user code.  A change of the readonly parameter is
\* answered ReadOnly, a change of the writable parameter to a value outside
\* its datainfo is answered BadValue, a command with an argument outside its
\* datainfo is answered BadValue; in each case no hook is invoked, the cache
\* keeps its value and timestamp, and no update is sent.
C14_ValidateFirst ==
    [][Handling =>
        /\ (result'.op = "change" /\ decl.readonly) =>
              (result' = Err("change", result'.arg, "ReadOnly") /\ Untouched)
        /\ (result'.op = "change" /\ ~decl.readonly /\ ~Valid(result'.arg)) =>
              (result' = Err("change", result'.arg, "BadValue") /\ Untouched)
        /\ (result'.op = "do" /\ ~Valid(result'.arg)) =>
              (result' = Err("do", result'.arg, "BadValue") /\ Untouched)]_vars

\* a change of the writable parameter to a value outside its datainfo was
\* refused after an operation had invoked hooks
C14_Witness ==
    /\ pstate = "ready"
    /\ ~decl.readonly
    /\ result.op = "change"
    /\ ~Valid(result.arg)
    /\ result.class = "BadValue"
    /\ calls = <<>>
    /\ param.data # DefaultVal


\* the worker reads the hardware parameter, on a read request or on a poll,
\* and the read hook returns res
Fresh(res) ==
    LET r == ParamRead(decl, param, now, res) IN
    /\ Handling
    /\ ~decl.swonly
    /\ result'.op \in {"read", "poll_normal", "poll_busy"}
    /\ calls' = <<"read">>
    /\ param' = r.param
    /\ updates' = r.updates
    /\ [result' EXCEPT !.op = "read", !.arg = 0] = r.result

\* C15: update elision.  When the worker reads the hardware parameter, on a
\* read request or on a poll, it sends an update with hid None if and only if
\* the value read differs from the cached value; afterwards the cache holds
\* the value read, and the reply to a read request carries the value read and
\* its timestamp whether or not an update was sent.
C15_UpdateElision ==
    [][\A res \in Values :
        Fresh(res) =>
            /\ (updates' # <<>>) <=> (res # param.data)
            /\ updates' # <<>> => updates' = <<[value |-> res, time |-> now]>>
            /\ param'.data = res
            /\ result'.op = "read" =>
                  (result'.ok /\ result'.val = res /\ result'.time = now)]_vars


\* the initialized worker handles a read request
Reading == Handling /\ result'.op = "read"

\* C16 as stated: every read of the parameter, hardware or software-only,
\* refreshes the cached timestamp to the current time, and the timestamp of
\* the initialized parameter never decreases.
C16_EveryReadRefreshes ==
    [][/\ Reading => param'.time = now
       /\ (pstate = "ready" /\ pstate' = "ready") => param'.time >= param.time]_vars

\* C16: a read of the hardware parameter whose read hook returns a value,
\* changed or not, refreshes the cached timestamp to the current time; a read
\* of the software-only parameter and a read whose hook fails leave the cache
\* entry as it is; the timestamp of the initialized parameter never decreases.
C16_HardwareReadRefreshes ==
    [][/\ (Reading /\ ~decl.swonly /\ result'.class # "CommunicationFailed") =>
              param'.time = now
       /\ (Reading /\ (decl.swonly \/ result'.class = "CommunicationFailed")) =>
              param' = param
       /\ (Reading /\ decl.swonly /\ result'.ok) => result'.time = param.time
       /\ (pstate = "ready" /\ pstate' = "ready") => param'.time >= param.time]_vars

\* a read of the hardware parameter after its initialization found the value
\* unchanged: no update was sent and the timestamp is the current time
C16_Witness ==
    /\ pstate = "ready"
    /\ ~decl.swonly
    /\ result.op = "read"
    /\ result.ok
    /\ updates = <<>>
    /\ now > 0
    /\ param.time = now


\* C17: poll selection.  On normal tick n poll_normal reads the parameter
\* with polling value p exactly when p # 0, n mod |p| = 0 and (p < 0 or the
\* cached status is not Busy); on busy tick n poll_busy reads it exactly when
\* p > 0, n mod p = 0 and the cached status is Busy; a parameter with p = 0 is
\* never polled; each tick increments only its own counter, by one.
C17_PollSelection ==
    [][LET p == decl.polling IN
       /\ (pstate = "ready" /\ poll_normal_counter' # poll_normal_counter) =>
             LET n == poll_normal_counter IN
             /\ (calls' = <<"read">>) <=>
                   (/\ p # 0
                    /\ n % (IF p < 0 THEN 0 - p ELSE p) = 0
                    /\ (p < 0 \/ status # "Busy"))
             /\ calls' \in {<<>>, <<"read">>}
             /\ calls' = <<>> => (param' = param /\ updates' = <<>>)
             /\ poll_normal_counter' = n + 1
             /\ poll_busy_counter' = poll_busy_counter
       /\ (pstate = "ready" /\ poll_busy_counter' # poll_busy_counter) =>
             LET n == poll_busy_counter IN
             /\ (calls' = <<"read">>) <=> (p > 0 /\ n % p = 0 /\ status = "Busy")
             /\ calls' \in {<<>>, <<"read">>}
             /\ calls' = <<>> => (param' = param /\ updates' = <<>>)
             /\ poll_busy_counter' = n + 1
             /\ poll_normal_counter' = poll_normal_counter]_vars

\* busy tick 2 read the parameter polled every second tick, after two normal
\* ticks
C17_Witness ==
    /\ pstate = "ready"
    /\ decl.polling = 2
    /\ result.op = "poll_busy"
    /\ result.arg = 2
    /\ calls = <<"read">>
    /\ poll_busy_counter = 3
    /\ poll_normal_counter = 2


\* C18: at every moment of the worker's event loop the period of the busy
\* poll ticker is one fifth of the period of the normal poll ticker, for the
\* tickers the worker starts with and after every write of pollinterval.
C18_BusyPeriod ==
    pstate = "ready" => 5 * poll_tickers[2] = poll_tickers[1]


\* init_params runs init_parameter for the parameter
Initializing == pstate = "new" /\ pstate' # "new"

\* s is an initial part of t
StepsOf(s, t) == Len(s) <= Len(t) /\ s = SubSeq(t, 1, Len(s))

\* what every row of the parameter-init matrix has in common: an error makes
\* init_params fail, which the supervisor sees; success makes the worker go on
InitOutcome ==
    /\ result'.op = "init"
    /\ pstate' = IF result'.ok THEN "ready" ELSE "failed"

\* the rows of the matrix for the hardware parameter
InitHardware ==
    LET present == cfg # <<>>
        def == decl.default # <<>> IN
    /\ (~decl.readonly /\ present) =>
          /\ calls'[1] = "change"
          /\ result'.arg = cfg[1]
          /\ result'.ok => calls' = <<"change", "write", "read">>
    /\ (~decl.readonly /\ ~present /\ def) =>
          /\ calls'[1] = "default"
          /\ result'.arg = decl.default[1]
          /\ result'.ok => calls' = <<"default", "change", "write", "read">>
    /\ (decl.readonly \/ (~present /\ ~def)) => calls' = <<"read">>

\* the rows of the matrix for the software-only parameter without override
InitDefault ==
    LET present == cfg # <<>>
        def == decl.default # <<>> IN
    /\ (~present /\ def /\ ~decl.readonly) =>
          /\ calls' = <<"default", "set", "update">>
          /\ param' = [data |-> decl.default[1], time |-> now]
    /\ (~present /\ def /\ decl.readonly) =>
          /\ calls' = <<"default", "set">>
          /\ param' = [data |-> decl.default[1], time |-> now]
          /\ result'.ok
    /\ (~present /\ ~def) =>
          /\ ~result'.ok
          /\ calls' = <<>>
          /\ param' = param

\* C19 as stated: init_parameter performs exactly the action of the
\* parameter-init matrix; the software-only parameter with a config override
\* is decoded and stored in the cache, and that is all.
C19_InitMatrix ==
    [][Initializing =>
        /\ InitOutcome
        /\ ~decl.swonly => InitHardware
        /\ decl.swonly => InitDefault
        /\ (decl.swonly /\ cfg # <<>>) =>
              /\ StepsOf(calls', <<"from_json", "set">>)
              /\ result'.ok =>
                    (calls' = <<"from_json", "set">> /\ param' = [data |-> cfg[1], time |-> now])]_vars

\* C19: init_parameter performs the action of the parameter-init matrix, and
\* for the writable software-only parameter with a config override it
\* decodes the config value, stores it in the cache and invokes the update
\* hook (for the readonly one it decodes and stores); any error makes
\* init_params fail and reaches the supervisor.
C19_InitMatrixUpdate ==
    [][Initializing =>
        /\ InitOutcome
        /\ ~decl.swonly => InitHardware
        /\ decl.swonly => InitDefault
        /\ (decl.swonly /\ cfg # <<>>) =>
              LET steps == IF decl.readonly THEN <<"from_json", "set">>
                           ELSE <<"from_json", "set", "update">> IN
              /\ StepsOf(calls', steps)
              /\ Valid(cfg[1]) =>
                    (calls' = steps /\ param' = [data |-> cfg[1], time |-> now])
              /\ ~Valid(cfg[1]) =>
                    (calls' = <<"from_json">> /\ param' = param /\ ~result'.ok)]_vars

\* the writable software-only parameter was initialized from its config
\* override and the update hook was invoked with the value
C19_Witness ==
    /\ pstate = "ready"
    /\ decl.swonly
    /\ ~decl.readonly
    /\ cfg # <<>>
    /\ result.op = "init"
    /\ calls = <<"from_json", "set", "update">>
    /\ param.data = cfg[1]


(* ---------------- LocalClient ---------------- *)
\* a call of the LocalClient returns
Returning == lc_call # "" /\ lc_call' = ""

\* C20: a read, change or command of the LocalClient returns Ok only when
\* the next message on the reply channel is an update, a changed or a done
\* respectively; any other message, a module's error reply included, yields a
\* Protocol error; no message within the timeout yields a
\* CommunicationFailed error; no call blocks longer than the timeout.
C20_LocalClient ==
    /\ [](lc_waited <= timeout)
    /\ [](lc_call # "" => ENABLED (LcRecv \/ LcWait \/ LcTimeout))
    /\ [][Returning =>
            /\ lc_result'.op = lc_call
            /\ lc_result'.ok <=>
                  (rep_receiver # <<>> /\ Head(rep_receiver) = LcMatching(lc_call))
            /\ (rep_receiver # <<>> /\ Head(rep_receiver) # LcMatching(lc_call)) =>
                  lc_result'.class = "Protocol"
            /\ rep_receiver # <<>> => rep_receiver' = Tail(rep_receiver)
            /\ rep_receiver = <<>> =>
                  (lc_result'.class = "CommunicationFailed" /\ lc_waited = timeout)]_vars

\* a call timed out, and the next call, a change, found the late update of
\* the read on the reply channel and returned a Protocol error
C20_Witness ==
    /\ lc_call = ""
    /\ lc_ncalls >= 2
    /\ lc_waited = timeout
    /\ lc_result = [op |-> "change", ok |-> FALSE, class |-> "Protocol", got |-> "update"]


(* ---------------- node description ---------------- *)
\* the entries of the cached node description for module id
EntriesOf(id) == {i \in 1..Len(descriptive) : descriptive[i].of = id}

\* C21: after any sequence of module starts and supervisor restarts the
\* cached node description holds at most one entry per module id (a
\* Describing for an id already present replaces the entry, only a Describing
\* for a new id appends one).
C21_OneEntryPerModule ==
    \A m \in Modules : Cardinality(EntriesOf(m)) <= 1


\* C22: every describing reply that a client receives for describe contains
\* an entry for every configured module (every module of the configuration is
\* visible).
C22_DescribeComplete ==
    \A h \in Hids : \A i \in 1..Len(rep[h]) :
        rep[h][i].type = "describing" =>
            \A m \in Modules : \E j \in 1..Len(rep[h][i].data) : rep[h][i].data[j].of = m


(* ---------------- order of the replies ---------------- *)
\* msg answers the request line: its reply, or an error that quotes it
AnswerTo(line, msg) ==
    \/ msg.type = "error" /\ msg.data = line
    \/ /\ msg.type = IF line[1] = "read" THEN "update"
                     ELSE IF line[1] = "change" THEN "changed" ELSE "done"
       /\ msg.module = line[2]
       /\ msg.acc = line[3]

\* the connection h has sent two different requests to one module
TwoRequests(h) ==
    /\ Len(sent[h]) = 2
    /\ sent[h][1] # sent[h][2]
    /\ sent[h][1][2] = sent[h][2][2]
    /\ \A i \in 1..2 : sent[h][i][1] \in {"read", "change", "do"}

\* C23: replies reach a connection in emission order.  A worker emits at the
\* end of the reply channel of the modules and the dispatcher takes from its
\* head; a reply channel of a connection only grows at its end; the writer
\* thread writes the messages of its channel in their order; two requests
\* sent by one connection to the same module are answered on the wire in the
\* order they were sent.
C23_ReplyOrder ==
    /\ [](\A h \in Hids : StepsOf(wire[h], rep[h]))
    /\ [][\A h \in Hids : StepsOf(rep[h], rep'[h]) /\ StepsOf(wire[h], wire'[h])]_vars
    /\ [][\/ StepsOf(replies, replies')
          \/ replies # <<>> /\ replies' = Tail(replies)]_vars
    /\ [][\A m \in Modules :
            \/ StepsOf(modreq[m], modreq'[m])
            \/ modreq[m] # <<>> /\ modreq'[m] = Tail(modreq[m])]_vars
    /\ [](\A h \in Hids :
            TwoRequests(h) =>
                ~ \E i, j \in 1..Len(wire[h]) :
                     /\ i < j
                     /\ AnswerTo(sent[h][2], wire[h][i])
                     /\ AnswerTo(sent[h][1], wire[h][j]))

\* a connection sent a read and then a change to one module, and its writer
\* thread has written the answer to the read and then the answer to the change
C23_Witness ==
    \E h \in Hids :
        /\ TwoRequests(h)
        /\ sent[h][1][1] = "read"
        /\ sent[h][2][1] = "change"
        /\ Len(wire[h]) = 2
        /\ AnswerTo(sent[h][1], wire[h][1])
        /\ AnswerTo(sent[h][2], wire[h][2])


(* ---------------- input length limit ---------------- *)
\* C24: a line longer than MAX_MSG_LEN bytes is never passed to Msg::parse,
\* and the handler that holds more than MAX_MSG_LEN bytes of a line has left
\* its loop and sent Quit, for every way the bytes of the stream are split
\* into reads of at most RECVBUF_LEN bytes.
C24_LengthLimit ==
    /\ \A i \in 1..Len(parsed) : Len(parsed[i]) <= MAX_MSG_LEN
    /\ Len(buf) > MAX_MSG_LEN => hdone


(* ---------------- messages on the wire ---------------- *)
\* C25: parse/format round trip.  For every canonical outward message m
\* (update, changed, done, describing with id ".", active and inactive in
\* module and global form, pong, error, *IDN? and the identify reply),
\* Msg::parse applied to the Display formatting of m succeeds and yields a
\* message equal to m.
C25_RoundTrip ==
    applied = <<"Display", "parse">> => (output[2].ok /\ output[2].msg = input)


(* ---------------- data types ---------------- *)
\* the value lies inside the bounds the descriptor declares
RECURSIVE InBounds(_, _)
InBounds(d, v) ==
    CASE d.type = "double" -> (d.min.some => v >= d.min.v) /\ (d.max.some => v <= d.max.v)
      [] d.type = "scaled" -> v >= d.min * d.scale /\ v <= d.max * d.scale
      [] d.type = "int" -> v >= d.min /\ v <= d.max
      [] d.type = "blob" -> Len(v) >= d.minbytes /\ Len(v) <= d.maxbytes
      [] d.type = "string" -> Len(v) >= d.minchars /\ Len(v) <= d.maxchars
      [] d.type = "array" -> /\ Len(v) >= d.minlen /\ Len(v) <= d.maxlen
                             /\ \A i \in 1..Len(v) : InBounds(d.members, v[i])
      [] d.type = "tuple" -> \A i \in 1..Len(d.members) : InBounds(d.members[i], v[i])
      [] d.type = "enum" -> \E k \in DOMAIN d.members : d.members[k] = v

\* C26: type validation.  For Int, Blob, Str, ArrayOf, Tuple, Enum, and
\* Double and Scaled on a grid: a value inside the declared bounds of its
\* descriptor comes back unchanged from to_json followed by from_json, and
\* for a value outside the declared bounds (min/max, minbytes/maxbytes,
\* minchars/maxchars, minlen/maxlen, no member of the enum) to_json returns
\* a BadValue error.
C26_TypeValidation ==
    /\ (applied # <<>> /\ ~InBounds(DescrOf(input), ValueOf(input)))
           => (~output[1].ok /\ output[1].err = "BadValue")
    /\ (applied # <<>> /\ InBounds(DescrOf(input), ValueOf(input))) => output[1].ok
    /\ (applied = <<"to_json", "from_json">> /\ InBounds(DescrOf(input), ValueOf(input)))
           => (output[2].ok /\ output[2].value = ValueOf(input))


(* ---------------- configuration ---------------- *)
\* two module names are equal in lower case, or a module name is equal in
\* lower case to the group name of a module
Collision(modules) ==
    \/ \E a, b \in DOMAIN modules : a # b /\ ToLowercase(a) = ToLowercase(b)
    \/ \E a, b \in DOMAIN modules :
          modules[b] # <<>> /\ ToLowercase(a) = ToLowercase(modules[b][1])

\* C27: load_config rejects every configuration in which two module names
\* are equal after lower-casing and every configuration in which a module
\* name equals, without regard to case, the group name of any module; it
\* accepts every configuration without such a collision.
C27_LowercaseUnique ==
    applied = <<"load_config">> => (output[1].ok <=> ~Collision(input))


(* ---------------- requests and their replies ---------------- *)
\* a request leaves the request channel of m in this step
Leaves(m) == ~StepsOf(modreq[m], modreq'[m])

\* this step takes the first request of m and sends exactly one reply with
\* the id of its handler, after the updates it broadcasts
OneReply(m) ==
    /\ modreq'[m] = Tail(modreq[m])
    /\ Len(replies') > Len(replies)
    /\ StepsOf(replies, replies')
    /\ replies'[Len(replies')].hid = Head(modreq[m]).hid
    /\ replies'[Len(replies')].hid \in Hids
    /\ replies'[Len(replies')].msg.type \in {"update", "changed", "done", "<updates>", "error"}
    /\ \A i \in (Len(replies) + 1)..(Len(replies') - 1) : replies'[i].hid = None

C29_RestartGating ==
    /\ [][\A m \in Modules :
            (mstate[m] = "dead" /\ mstate'[m] # "dead") =>
                (mstate'[m] = "wait" /\ modreq'[m] = <<>>)]_vars
    /\ [][\A m \in Modules :
            (mstate[m] = "wait" /\ mstate'[m] # "wait") =>
                (mstate'[m] = "init" /\ modreq[m] # <<>> /\ modreq'[m] = modreq[m])]_vars
    /\ [][\A m \in Modules :
            mstate[m] \in {"wait", "init"} => StepsOf(modreq[m], modreq'[m])]_vars
    /\ [][\A m \in Modules :
            (mstate[m] = "loop" /\ mstate'[m] = "loop" /\ Leaves(m)) =>
                /\ modreq'[m] = Tail(modreq[m])
                /\ replies'[Len(replies')].hid = Head(modreq[m]).hid]_vars

\* the worker of a module was created again and is in its event loop, and
\* the request that triggered the restart is the first of its channel
C29_Witness ==
    \E m \in restarted : mstate[m] = "loop" /\ modreq[m] # <<>>


(* ---------------- subscriptions and init_params ---------------- *)
\* C30: whenever the worker of a module executes init_params, no handler is
\* subscribed to that module, so that no Update that the initial change or
\* read of init_parameter emits is delivered to a client.
C30_InitUnsubscribed ==
    [][\A m \in Modules :
          (mstate[m] = "init" /\ mstate'[m] # "init") => active[m] = {}]_vars


(* ---------------- line framing ---------------- *)
\* the bytes of s before its first newline, or all of s
RECURSIVE FirstLine(_)
FirstLine(s) ==
    IF s = <<>> \/ s[1] = NL THEN <<>> ELSE <<s[1]>> \o FirstLine(Tail(s))

\* a line without the carriage returns at its end
RECURSIVE Chomp(_)
Chomp(line) ==
    IF line # <<>> /\ line[Len(line)] = CR THEN Chomp(SubSeq(line, 1, Len(line) - 1))
    ELSE line

\* the lines of a stream: every newline-terminated line, in the order of the
\* stream, without its trailing carriage returns
RECURSIVE Framed(_)
Framed(s) ==
    IF \A i \in 1..Len(s) : s[i] # NL THEN <<>>
    ELSE <<Chomp(FirstLine(s))>> \o Framed(SubSeq(s, Len(FirstLine(s)) + 2, Len(s)))

\* the incomplete line at the end of a stream
RECURSIVE Unfinished(_)
Unfinished(s) ==
    IF \A i \in 1..Len(s) : s[i] # NL THEN s
    ELSE Unfinished(SubSeq(s, Len(FirstLine(s)) + 2, Len(s)))

\* every line of s, the unfinished one included, is shorter than MAX_MSG_LEN
ShortLines(s) ==
    \A i \in 1..(Len(s) - MAX_MSG_LEN + 1) : \E j \in i..(i + MAX_MSG_LEN - 1) : s[j] = NL

\* C31: line framing is independent of chunking.  For a stream whose lines
\* are all shorter than MAX_MSG_LEN and for every split of it into reads of
\* at most RECVBUF_LEN bytes, the lines passed to `process` so far followed
\* by the lines of what is still to come are always the lines of the whole
\* stream (each newline-terminated line once, in stream order, without its
\* trailing carriage returns), the buffer holds exactly the incomplete tail
\* of what was read, and the handler leaves its loop only at the end of the
\* stream.
C31_ChunkingIndependent ==
    /\ [](ShortLines(buf \o stream) =>
            /\ \A i \in 1..Len(buf) : buf[i] # NL
            /\ hdone => stream = <<>>)
    /\ [][ShortLines(buf \o stream) =>
            /\ ShortLines(buf' \o stream')
            /\ parsed' \o Framed(buf' \o stream') = parsed \o Framed(buf \o stream)
            /\ Unfinished(buf' \o stream') = Unfinished(buf \o stream)
            /\ stream' = <<>> => (buf' = Unfinished(buf \o stream)
                                  /\ parsed' = parsed \o Framed(buf \o stream))]_vars

\* the handler has read a stream of short lines to its end: it has
\* processed two lines, the second of them empty, and keeps an incomplete
\* line in its buffer
C31_Witness ==
    /\ hdone
    /\ stream = <<>>
    /\ parsed = <<<<"x">>, <<>>>>
    /\ buf = <<"x">>


(* ---------------- global activation ---------------- *)
\* C32: global activation terminates.  Every global `activate` that the
\* dispatcher accepts (global_activate_remaining becomes the number of
\* modules) is eventually answered with the global `active` (the counter is
\* back at zero), when the dispatcher, the workers and the supervisors keep
\* running, also when a worker panics and is created again while the
\* activation is in flight.
C32_GlobalActivationTerminates ==
    (global_activate_remaining > 0) ~> (global_activate_remaining = 0)


(* ---------------- the dispatcher keeps running ---------------- *)
\* C33: the dispatcher never panics.  In every reachable state the request
\* channel of every module has its receiver (the supervisor of the module
\* holds it in every state of the worker), every Update that a module has
\* sent with hid None names a module that has a set in `active`,
\* global_activate_remaining lies between 0 and the number of modules, and
\* an InitUpdates of a global activation is waiting only while the counter
\* is positive, so that the counter is never decremented at zero.
C33_DispatcherNeverPanics ==
    /\ DOMAIN modreq = Modules
    /\ \A m \in Modules : mstate[m] \in {"init", "loop", "dead", "wait"}
    /\ \A i \in 1..Len(replies) :
          (replies[i].hid = None /\ replies[i].msg.type = "update")
              => replies[i].msg.module \in DOMAIN active
    /\ global_activate_remaining \in 0..Cardinality(Modules)
    /\ Cardinality({i \in 1..Len(replies) :
                       /\ replies[i].hid # None
                       /\ replies[i].msg.type = "<updates>"
                       /\ replies[i].msg.module = ""})
          <= global_activate_remaining

\* a global activation is in flight, one module has answered it, and the
\* worker of a module has been created again after a panic
C33_Witness ==
    /\ global_activate_remaining = 1
    /\ restarted # {}


(* ---------------- order of subscription requests ---------------- *)
\* every request of handler h has been completely processed: none waits for
\* the dispatcher or for a worker, and no reply to h waits for the dispatcher
Settled(h) ==
    /\ \A i \in 1..Len(requests) : requests[i].hid # h
    /\ \A m \in Modules : \A i \in 1..Len(modreq[m]) : modreq[m][i].hid # h
    /\ \A i \in 1..Len(replies) : replies[i].hid # h

\* C34: subscription requests of one handler take effect in the order they
\* were sent: when hid has sent `activate m` and then `deactivate m` (or the
\* two global forms) and nothing further, and both requests have been
\* completely processed, hid is not in the subscription set of m (of any
\* module for the global forms), so that it receives no further broadcast
\* `update m:*`.
C34_SubscriptionOrder ==
    \A h \in Hids :
        /\ \A m \in Modules :
              (sent[h] = <<Line(Activate(m)), Line(Deactivate(m))>> /\ Settled(h))
                  => h \notin active[m]
        /\ (sent[h] = <<Line(Activate("")), Line(Deactivate(""))>> /\ Settled(h))
              => \A m \in Modules : h \notin active[m]


(* ---------------- updates during a global activation ---------------- *)
\* C35: for a global activation by hid, every Update that a module
\* broadcasts after it has produced its InitUpdates for that activation is
\* delivered to hid: when the global `active` is the last message sent to
\* hid, which is connected, the last value hid has received for the
\* parameter of every module is the value the module has last broadcast (its
\* cached value, when that value converts and no Update of the module waits
\* for the dispatcher).
C35_GlobalSnapshotComplete ==
    \A h \in Hids :
        (/\ h \in handlers /\ ReceiverAlive(h)
         /\ rep[h] # <<>> /\ IsActive(rep[h][Len(rep[h])], "")) =>
            \A m \in Modules :
                (Valid(cache[m]) /\ ~UpdatePending(m)) =>
                    /\ Received(h, m) # <<>>
                    /\ Received(h, m)[Len(Received(h, m))].data = <<cache[m]>>


(* ---------------- replies of the LocalClient ---------------- *)
\* C36: request/reply correlation of the loopback client: the message that
\* a read, change or command call of the LocalClient returns is the reply
\* the node produced for the request of that very call; the reply to an
\* earlier call that timed out is never returned as the result of a later
\* call.
C36_ReplyOfThisCall ==
    [][(Returning /\ rep_receiver # <<>>) => lc_tags'.got = lc_ncalls]_vars


(* ---------------- replies to open connections ---------------- *)
\* C37: no reply is lost for an open connection: a message the dispatcher
\* addresses to a handler that has not sent Quit (and whose writer still
\* holds the receiver) is placed on the reply channel of that handler: the
\* answer to a `describe`, and the reply of a module to one of the handler's
\* requests; this holds as well when the request was sent right after the
\* handler was put on the new-connections channel.
C37_NoReplyLost ==
    [][/\ (/\ Processing
           /\ Request.msg.type = "describe"
           /\ Request.hid \notin quit_sent
           /\ ReceiverAlive(Request.hid)) =>
              Placed(Request.hid) = <<Describing(".", descriptive)>>
       /\ (/\ Replying
           /\ Reply.hid \in Hids
           /\ Reply.msg.type \in {"update", "changed", "done", "error"}
           /\ Reply.hid \notin quit_sent
           /\ ReceiverAlive(Reply.hid)) =>
              Placed(Reply.hid) = <<Reply.msg>>]_vars


(* ---------------- errors and the cache ---------------- *)
\* C38: errors leave the parameter cache untouched: whenever a read or a
\* change request is answered with an error, the cache entry of the
\* parameter (value and timestamp) is the same as before the request and no
\* update of the parameter was broadcast for that request.
C38_ErrorLeavesCache ==
    [][(Handling /\ result'.op \in {"read", "change"} /\ ~result'.ok) =>
          (param' = param /\ updates' = <<>>)]_vars


(* ---------------- ping of the LocalClient ---------------- *)
\* C39: LocalClient::ping succeeds on a running node: after the client has
\* sent Ping to the dispatcher, a Pong is delivered to its reply channel
\* within the timeout, and ping returns Ok(()).
C39_PingSucceeds ==
    [][(Returning /\ lc_call = "ping") =>
          (lc_result'.ok /\ lc_result'.got = "pong")]_vars


(* ---------------- readline of the communicator ---------------- *)
\* C40: CommClient::readline (and communicate) returns the oldest complete
\* line whenever the shared buffer holds a line ended by the end-of-line
\* sequence when it is called, or the reader thread appends one before the
\* timeout; it returns the "no response" error only if no complete line was
\* in the buffer during the whole call, and get_line is reached only when
\* the buffer contains the end-of-line sequence.
C40_ReadlineReturnsLine ==
    [][(waiter # "idle" /\ waiter' = "idle") =>
          /\ rl_result'.kind = "no response" => ~line_seen
          /\ rl_result'.kind # "no response" =>
                /\ HasEol(buffer)
                /\ rl_result'.kind = "line"
                /\ \A i \in 1..Len(rl_result'.line) :
                      SubSeq(rl_result'.line, i, Len(rl_result'.line)) # eol
                /\ buffer = rl_result'.line \o eol \o buffer']_vars

====
